---- MODULE Spec2Model ----
(***************************************************************************)
(* Model of the Japanese sentence tokenizer and the romanization engine    *)
(* (createTokenizer, toRomajiCharByChar, createRomajiConverter), and of    *)
(* the components and hooks that use them: SentenceScramble, App with      *)
(* useContentLoader, useAiGameGenerator, KanjiConnect and MatchingGame.    *)
(*                                                                         *)
(* Text is a sequence of UTF-16 code units.  A code unit is written as a   *)
(* short ASCII name:                                                       *)
(*   hiragana   the letter's Unicode name: "KA" is か, "SI" is し,         *)
(*              "TI" is ち, "TU" is つ, "HU" is ふ, "ZI" is じ, "DI" is ぢ, *)
(*              "DU" is づ, "WO" is を, "N" is ん                           *)
(*   small kana "xTU" is っ, "xYA" "xYU" "xYO" are ゃ ゅ ょ                 *)
(*   katakana   "k" + the Unicode name: "kKO" is コ, "kHI" is ヒ            *)
(*   "CHOON" is ー, "LOWLINE" is ＿, "FULLSTOP" 。, "COMMA" 、, "EXCL" ！,  *)
(*   "QUES" ？, "LBRACKET" 「, "RBRACKET" 」, "NEKO" is the kanji 猫        *)
(*   Latin letters, digits, " ", "/", "(", ")" and ASCII punctuation (the backtick is "BACKTICK") stand  *)
(*   for themselves.                                                       *)
(***************************************************************************)
EXTENDS Integers, Sequences, FiniteSets, TLC

VARIABLES contentItems, allTokensWithBlank, dictionary, op, sentence, tokens,
          part, romaji, remainingSentence, built, log, scramble, app, gen, fillBlanksQuestion, game

vars == <<contentItems, allTokensWithBlank, dictionary, op, sentence, tokens,
          part, romaji, remainingSentence, built, log, scramble, app, gen, fillBlanksQuestion, game>>

\* built is the vocabulary list the two closures were built from (contentItems
\* is the caller's current list); log holds the calls made so far where
\* repeated calls are modelled, each [input, output]; remainingSentence is
\* the tokenizer's loop variable where the loop is modelled step by step.
\* scramble is the state of the Sentence Scramble game: isLoading (true until
\* a question has been generated), the current question (japanese, words),
\* the tiles still offered (scrambledOptions), the tiles placed (userAnswer,
\* by originalIndex), isAnswered and isCorrect.

\* app is the state of App and of its useContentLoader: view, selectedUnits,
\* theme, content (the units whose items are loaded), isLoading, error, and
\* pending (the loadContent calls awaiting their fetches).

\* App and useContentLoader after the first render
AppStart ==
    [view |-> "unit_selection", selectedUnits |-> <<>>, theme |-> "dark",
     content |-> <<>>, isLoading |-> FALSE, error |-> "null", pending |-> {}]

\* gen is the state of useAiGameGenerator: the three question lists (a
\* question is written as the number of the run that produced it),
\* isGenerating, generationError, vocabulary (whether the current content has
\* no items, fewer than 15 vocabulary items or enough), and for the runs of
\* generateGames: runs (those awaiting the AI service), started (how many
\* have been started), latest (the run the latest effect started, 0 when it
\* took the early return) and outcome (how each settled run ended).

\* the hook after its first render with no content
GenStart ==
    [scrambleQuestions |-> <<>>, fillBlanksQuestions |-> <<>>,
     correctTheErrorQuestions |-> <<>>, isGenerating |-> FALSE,
     generationError |-> "null", vocabulary |-> "none",
     runs |-> {}, started |-> 0, latest |-> 0, outcome |-> <<>>]

\* fillBlanksQuestion is the fill-in-the-blanks question last produced.

\* no question produced yet
NoFillBlanks ==
    [sentenceWithBlank |-> <<>>, romajiSentenceWithBlank |-> <<>>,
     options |-> <<>>, correctAnswer |-> <<>>]

\* game is the state of a matching game (Kanji Connect, Matching Game): cards
\* (id, pairId, status; positions count from 1), flippedIndices, isFinished,
\* moves, timers (the pending flip timeouts, each with what its callback
\* captured) and finishPending (the timeout that sets isFinished is pending).

\* the component before setupGame has run
NoGame ==
    [cards |-> <<>>, flippedIndices |-> <<>>, isFinished |-> FALSE,
     moves |-> 0, timers |-> {}, finishPending |-> FALSE]

\* the game before its question has been generated
NoRound ==
    [isLoading |-> TRUE, japanese |-> <<>>, words |-> <<>>,
     scrambledOptions |-> {}, userAnswer |-> <<>>,
     isAnswered |-> FALSE, isCorrect |-> FALSE]

\* ------------------------------------------------------------ bounds
MaxVocab == 2
MaxSentenceLen == 3
MaxPartLen == 2

\* ------------------------------------------------- string primitives
\* the code units matched by \s and removed by trim(): the ASCII space and
\* the ideographic space U+3000
Whitespace == {" ", "IDSP"}

Range(s) == {s[i] : i \in 1..Len(s)}

Minimum(S) == CHOOSE m \in S : \A n \in S : m <= n

Maximum(S) == CHOOSE m \in S : \A n \in S : n <= m

\* String.prototype.startsWith
startsWith(s, t) == Len(t) <= Len(s) /\ SubSeq(s, 1, Len(t)) = t

\* String.prototype.substring(n)
substring(s, n) == SubSeq(s, n + 1, Len(s))

\* variant: the sentence is segmented as given, whitespace and all
keepWhitespace(s) == s

\* s.replace(/\s+/g, '')
removeWhitespace(s) == SelectSeq(s, LAMBDA c : c \notin Whitespace)

\* s.split(/[\(\s]/)[0]: the text before the first "(" or whitespace
splitFirst(s) ==
    LET cut == {i \in 1..Len(s) : s[i] = "(" \/ s[i] \in Whitespace}
    IN  IF cut = {} THEN s ELSE SubSeq(s, 1, Minimum(cut) - 1)

\* String.prototype.trim
trim(s) ==
    LET keep == {i \in 1..Len(s) : s[i] \notin Whitespace}
    IN  IF keep = {} THEN <<>> ELSE SubSeq(s, Minimum(keep), Maximum(keep))

RECURSIVE concat(_)
\* tokens.join('')
concat(ss) == IF ss = <<>> THEN <<>> ELSE Head(ss) \o concat(Tail(ss))

\* ------------------------------------------------------ fixed tables
\* ＿＿＿
BLANK_MARKER == <<"LOWLINE", "LOWLINE", "LOWLINE">>

\* こんにちは  ありがとう  どうぞよろしく  おやすみなさい  はじめまして
WORD_EXCEPTIONS ==
    << <<"KO", "N", "NI", "TI", "HA">>,
       <<"A", "RI", "GA", "TO", "U">>,
       <<"DO", "U", "ZO", "YO", "RO", "SI", "KU">>,
       <<"O", "YA", "SU", "MI", "NA", "SA", "I">>,
       <<"HA", "ZI", "ME", "MA", "SI", "TE">> >>

\* は  が  を  に  へ  と  も  の  で  か  ね  よ  から  まで
PARTICLES ==
    << <<"HA">>,
       <<"GA">>,
       <<"WO">>,
       <<"NI">>,
       <<"HE">>,
       <<"TO">>,
       <<"MO">>,
       <<"NO">>,
       <<"DE">>,
       <<"KA">>,
       <<"NE">>,
       <<"YO">>,
       <<"KA", "RA">>,
       <<"MA", "DE">> >>

\* ます  ません  ました  ませんでした  ましょう  です  でした  ですか  でしたか  ではありません  じゃありません  ください  なさい  。  、  ！  ？  「  」
ENDINGS_PUNCTUATION ==
    << <<"MA", "SU">>,
       <<"MA", "SE", "N">>,
       <<"MA", "SI", "TA">>,
       <<"MA", "SE", "N", "DE", "SI", "TA">>,
       <<"MA", "SI", "xYO", "U">>,
       <<"DE", "SU">>,
       <<"DE", "SI", "TA">>,
       <<"DE", "SU", "KA">>,
       <<"DE", "SI", "TA", "KA">>,
       <<"DE", "HA", "A", "RI", "MA", "SE", "N">>,
       <<"ZI", "xYA", "A", "RI", "MA", "SE", "N">>,
       <<"KU", "DA", "SA", "I">>,
       <<"NA", "SA", "I">>,
       <<"FULLSTOP">>,
       <<"COMMA">>,
       <<"EXCL">>,
       <<"QUES">>,
       <<"LBRACKET">>,
       <<"RBRACKET">> >>

ROMANIZATION_TABLE ==
    \* あ い う え お
    (<<"A">> :> <<"a">>) @@ (<<"I">> :> <<"i">>) @@ (<<"U">> :> <<"u">>) @@ (<<"E">> :> <<"e">>) @@ (<<"O">> :> <<"o">>)
    @@
    \* か き く け こ
    (<<"KA">> :> <<"k", "a">>) @@ (<<"KI">> :> <<"k", "i">>) @@ (<<"KU">> :> <<"k", "u">>) @@ (<<"KE">> :> <<"k", "e">>) @@ (<<"KO">> :> <<"k", "o">>)
    @@
    \* さ し す せ そ
    (<<"SA">> :> <<"s", "a">>) @@ (<<"SI">> :> <<"s", "h", "i">>) @@ (<<"SU">> :> <<"s", "u">>) @@ (<<"SE">> :> <<"s", "e">>) @@ (<<"SO">> :> <<"s", "o">>)
    @@
    \* た ち つ て と
    (<<"TA">> :> <<"t", "a">>) @@ (<<"TI">> :> <<"c", "h", "i">>) @@ (<<"TU">> :> <<"t", "s", "u">>) @@ (<<"TE">> :> <<"t", "e">>) @@ (<<"TO">> :> <<"t", "o">>)
    @@
    \* な に ぬ ね の
    (<<"NA">> :> <<"n", "a">>) @@ (<<"NI">> :> <<"n", "i">>) @@ (<<"NU">> :> <<"n", "u">>) @@ (<<"NE">> :> <<"n", "e">>) @@ (<<"NO">> :> <<"n", "o">>)
    @@
    \* は ひ ふ へ ほ
    (<<"HA">> :> <<"h", "a">>) @@ (<<"HI">> :> <<"h", "i">>) @@ (<<"HU">> :> <<"f", "u">>) @@ (<<"HE">> :> <<"h", "e">>) @@ (<<"HO">> :> <<"h", "o">>)
    @@
    \* ま み む め も
    (<<"MA">> :> <<"m", "a">>) @@ (<<"MI">> :> <<"m", "i">>) @@ (<<"MU">> :> <<"m", "u">>) @@ (<<"ME">> :> <<"m", "e">>) @@ (<<"MO">> :> <<"m", "o">>)
    @@
    \* や ゆ よ
    (<<"YA">> :> <<"y", "a">>) @@ (<<"YU">> :> <<"y", "u">>) @@ (<<"YO">> :> <<"y", "o">>)
    @@
    \* ら り る れ ろ
    (<<"RA">> :> <<"r", "a">>) @@ (<<"RI">> :> <<"r", "i">>) @@ (<<"RU">> :> <<"r", "u">>) @@ (<<"RE">> :> <<"r", "e">>) @@ (<<"RO">> :> <<"r", "o">>)
    @@
    \* わ を ん
    (<<"WA">> :> <<"w", "a">>) @@ (<<"WO">> :> <<"o">>) @@ (<<"N">> :> <<"n">>)
    @@
    \* が ぎ ぐ げ ご
    (<<"GA">> :> <<"g", "a">>) @@ (<<"GI">> :> <<"g", "i">>) @@ (<<"GU">> :> <<"g", "u">>) @@ (<<"GE">> :> <<"g", "e">>) @@ (<<"GO">> :> <<"g", "o">>)
    @@
    \* ざ じ ず ぜ ぞ
    (<<"ZA">> :> <<"z", "a">>) @@ (<<"ZI">> :> <<"j", "i">>) @@ (<<"ZU">> :> <<"z", "u">>) @@ (<<"ZE">> :> <<"z", "e">>) @@ (<<"ZO">> :> <<"z", "o">>)
    @@
    \* だ ぢ づ で ど
    (<<"DA">> :> <<"d", "a">>) @@ (<<"DI">> :> <<"j", "i">>) @@ (<<"DU">> :> <<"z", "u">>) @@ (<<"DE">> :> <<"d", "e">>) @@ (<<"DO">> :> <<"d", "o">>)
    @@
    \* ば び ぶ べ ぼ
    (<<"BA">> :> <<"b", "a">>) @@ (<<"BI">> :> <<"b", "i">>) @@ (<<"BU">> :> <<"b", "u">>) @@ (<<"BE">> :> <<"b", "e">>) @@ (<<"BO">> :> <<"b", "o">>)
    @@
    \* ぱ ぴ ぷ ぺ ぽ
    (<<"PA">> :> <<"p", "a">>) @@ (<<"PI">> :> <<"p", "i">>) @@ (<<"PU">> :> <<"p", "u">>) @@ (<<"PE">> :> <<"p", "e">>) @@ (<<"PO">> :> <<"p", "o">>)
    @@
    \* きゃ きゅ きょ
    (<<"KI", "xYA">> :> <<"k", "y", "a">>) @@ (<<"KI", "xYU">> :> <<"k", "y", "u">>) @@ (<<"KI", "xYO">> :> <<"k", "y", "o">>)
    @@
    \* しゃ しゅ しょ
    (<<"SI", "xYA">> :> <<"s", "h", "a">>) @@ (<<"SI", "xYU">> :> <<"s", "h", "u">>) @@ (<<"SI", "xYO">> :> <<"s", "h", "o">>)
    @@
    \* ちゃ ちゅ ちょ
    (<<"TI", "xYA">> :> <<"c", "h", "a">>) @@ (<<"TI", "xYU">> :> <<"c", "h", "u">>) @@ (<<"TI", "xYO">> :> <<"c", "h", "o">>)
    @@
    \* にゃ にゅ にょ
    (<<"NI", "xYA">> :> <<"n", "y", "a">>) @@ (<<"NI", "xYU">> :> <<"n", "y", "u">>) @@ (<<"NI", "xYO">> :> <<"n", "y", "o">>)
    @@
    \* ひゃ ひゅ ひょ
    (<<"HI", "xYA">> :> <<"h", "y", "a">>) @@ (<<"HI", "xYU">> :> <<"h", "y", "u">>) @@ (<<"HI", "xYO">> :> <<"h", "y", "o">>)
    @@
    \* みゃ みゅ みょ
    (<<"MI", "xYA">> :> <<"m", "y", "a">>) @@ (<<"MI", "xYU">> :> <<"m", "y", "u">>) @@ (<<"MI", "xYO">> :> <<"m", "y", "o">>)
    @@
    \* りゃ りゅ りょ
    (<<"RI", "xYA">> :> <<"r", "y", "a">>) @@ (<<"RI", "xYU">> :> <<"r", "y", "u">>) @@ (<<"RI", "xYO">> :> <<"r", "y", "o">>)
    @@
    \* ぎゃ ぎゅ ぎょ
    (<<"GI", "xYA">> :> <<"g", "y", "a">>) @@ (<<"GI", "xYU">> :> <<"g", "y", "u">>) @@ (<<"GI", "xYO">> :> <<"g", "y", "o">>)
    @@
    \* じゃ じゅ じょ
    (<<"ZI", "xYA">> :> <<"j", "a">>) @@ (<<"ZI", "xYU">> :> <<"j", "u">>) @@ (<<"ZI", "xYO">> :> <<"j", "o">>)
    @@
    \* ぢゃ ぢゅ ぢょ
    (<<"DI", "xYA">> :> <<"j", "a">>) @@ (<<"DI", "xYU">> :> <<"j", "u">>) @@ (<<"DI", "xYO">> :> <<"j", "o">>)
    @@
    \* びゃ びゅ びょ
    (<<"BI", "xYA">> :> <<"b", "y", "a">>) @@ (<<"BI", "xYU">> :> <<"b", "y", "u">>) @@ (<<"BI", "xYO">> :> <<"b", "y", "o">>)
    @@
    \* ぴゃ ぴゅ ぴょ
    (<<"PI", "xYA">> :> <<"p", "y", "a">>) @@ (<<"PI", "xYU">> :> <<"p", "y", "u">>) @@ (<<"PI", "xYO">> :> <<"p", "y", "o">>)
    @@
    \* 。 、 ！ ？ 「 」
    (<<"FULLSTOP">> :> <<".">>) @@ (<<"COMMA">> :> <<",">>) @@ (<<"EXCL">> :> <<"!">>) @@ (<<"QUES">> :> <<"?">>) @@ (<<"LBRACKET">> :> <<"BACKTICK">>) @@ (<<"RBRACKET">> :> <<"BACKTICK">>)

\* ---------------------------------------------------- createTokenizer
\* item.Hiragana.split(/[\(\s]/)[0].trim()
hiraganaBase(item) == trim(splitFirst(item.Hiragana))

\* variant: the empty canonical forms are kept
vocabularyWordsUnfiltered(items) ==
    [i \in 1..Len(items) |-> hiraganaBase(items[i])]

\* contentItems.map(...).filter(Boolean)
vocabularyWords(items) ==
    SelectSeq([i \in 1..Len(items) |-> hiraganaBase(items[i])],
              LAMBDA w : w # <<>>)

RECURSIVE dedupe(_, _)
\* [...new Set(list)]: first occurrences, in insertion order
dedupe(list, seen) ==
    IF list = <<>> THEN <<>>
    ELSE IF Head(list) \in seen THEN dedupe(Tail(list), seen)
    ELSE <<Head(list)>> \o dedupe(Tail(list), seen \cup {Head(list)})

allKnownWords(items) == dedupe(vocabularyWords(items) \o WORD_EXCEPTIONS, {})

RECURSIVE byLengthFrom(_, _)
byLengthFrom(list, n) ==
    IF n < 0 THEN <<>>
    ELSE SelectSeq(list, LAMBDA w : Len(w) = n) \o byLengthFrom(list, n - 1)

\* variant: the candidate list is left in insertion order
unsorted(list) == list

\* list.sort((a, b) => b.length - a.length): stable, longest first
sortByLengthDesc(list) ==
    IF list = <<>> THEN <<>>
    ELSE byLengthFrom(list, Maximum({Len(w) : w \in Range(list)}))

allTokens(items) ==
    sortByLengthDesc(allKnownWords(items) \o PARTICLES \o ENDINGS_PUNCTUATION)

\* variant: the blank marker is not put in front of the candidates
createTokenizerNoBlank(items) == allTokens(items)

\* the candidate list the returned closure captures
createTokenizer(items) == <<BLANK_MARKER>> \o allTokens(items)

\* the for loop: index of the first candidate remaining starts with, 0 if none
firstMatch(candidates, remaining) ==
    LET hits == {i \in 1..Len(candidates) : startsWith(remaining, candidates[i])}
    IN  IF hits = {} THEN 0 ELSE Minimum(hits)

\* variant: an unmatched character is skipped (an empty token is filtered out)
fallbackDropped(remaining) == <<>>

\* variant: the whole remainder is pushed instead of its first character
fallbackRest(remaining) == remaining

\* the fallback branch: the token pushed when nothing matched
fallbackToken(remaining) == <<remaining[1]>>

RECURSIVE segmentLoop(_, _, _)
\* the while loop of the closure
segmentLoop(candidates, remaining, acc) ==
    IF Len(remaining) = 0 THEN acc
    ELSE LET m == firstMatch(candidates, remaining)
             token == IF m # 0 THEN candidates[m]
                      ELSE fallbackToken(remaining)
             step == IF m # 0 THEN Len(token) ELSE 1
         IN  segmentLoop(candidates, substring(remaining, step),
                         Append(acc, token))

\* the closure createTokenizer returns
tokenizer(candidates, s) ==
    IF s = <<>> THEN <<>>
    ELSE SelectSeq(segmentLoop(candidates, removeWhitespace(s), <<>>),
                   LAMBDA t : t # <<>>)

\* ------------------------------------------------ toRomajiCharByChar
Vowels == {"a", "i", "u", "e", "o"}

\* ROMANIZATION_TABLE[key] is truthy
inTable(key) == key \in DOMAIN ROMANIZATION_TABLE

\* variant: the last character is repeated whatever it is
longVowelAny(result) ==
    IF Len(result) > 0 THEN <<result[Len(result)]>> ELSE <<>>

\* the long-vowel branch: what "ー" appends to result
longVowel(result) ==
    IF Len(result) > 0 /\ result[Len(result)] \in Vowels
    THEN <<result[Len(result)]>>
    ELSE <<>>

\* variant: the first letter is doubled even when it is a vowel
geminateAny(nextRomaji) ==
    IF nextRomaji # <<>> THEN <<nextRomaji[1]>> ELSE <<>>

\* what "っ" appends, given the romanization of the character after it
\* ('' when there is none)
geminate(nextRomaji) ==
    IF nextRomaji # <<>> /\ nextRomaji[1] \notin Vowels
    THEN <<nextRomaji[1]>>
    ELSE <<>>

\* variant: a character outside the table is dropped
dropUnknown(ch) == <<>>

\* the last else branch: a character outside the table is emitted unchanged
passThrough(ch) == <<ch>>

\* variant: the one-character lookup is tried before the two-character one
singleFirstLookup(text, i) ==
    IF inTable(<<text[i]>>)
    THEN <<ROMANIZATION_TABLE[<<text[i]>>], 1>>
    ELSE IF i + 1 <= Len(text) /\ inTable(SubSeq(text, i, i + 1))
    THEN <<ROMANIZATION_TABLE[SubSeq(text, i, i + 1)], 2>>
    ELSE <<passThrough(text[i]), 1>>

\* the lookup branches at text[i]: <<the text emitted, the number of
\* characters consumed>>
tableLookup(text, i) ==
    IF i + 1 <= Len(text) /\ inTable(SubSeq(text, i, i + 1))
    THEN <<ROMANIZATION_TABLE[SubSeq(text, i, i + 1)], 2>>
    ELSE IF inTable(<<text[i]>>)
    THEN <<ROMANIZATION_TABLE[<<text[i]>>], 1>>
    ELSE <<passThrough(text[i]), 1>>

RECURSIVE toRomajiCharByChar(_)
RECURSIVE romajiLoop(_, _, _)
\* the for loop of toRomajiCharByChar; i is the 1-based index of text[i]
romajiLoop(text, i, result) ==
    IF i > Len(text) THEN result
    ELSE IF text[i] = "xTU"
    THEN romajiLoop(text, i + 1,
             result \o (IF i + 1 <= Len(text)
                        THEN geminate(toRomajiCharByChar(<<text[i + 1]>>))
                        ELSE <<>>))
    ELSE IF text[i] = "CHOON"
    THEN romajiLoop(text, i + 1, result \o longVowel(result))
    ELSE LET hit == tableLookup(text, i)
         IN  romajiLoop(text, i + hit[2], result \o hit[1])

toRomajiCharByChar(text) ==
    IF text = <<>> THEN <<>> ELSE romajiLoop(text, 1, <<>>)

\* ---------------------------------------------- createRomajiConverter
\* item.Romaji.split(/[\(\s]/)[0].trim()
romajiBase(item) == trim(splitFirst(item.Romaji))

\* variant: dictionary.set without the has() test, so a later entry overwrites
setAlways(d, key, value) ==
    [k \in DOMAIN d \cup {key} |-> IF k = key THEN value ELSE d[k]]

\* if (!dictionary.has(key)) dictionary.set(key, value)
setIfAbsent(d, key, value) ==
    IF key \in DOMAIN d THEN d ELSE d @@ (key :> value)

\* variant: only the Japanese form of an entry becomes a key
addItemJapaneseOnly(d, item) ==
    IF item.Japanese # item.Hiragana /\ item.Japanese # <<>>
       /\ romajiBase(item) # <<>>
    THEN setIfAbsent(d, item.Japanese, romajiBase(item))
    ELSE d

\* the body of contentItems.forEach
addItem(d, item) ==
    LET hb == hiraganaBase(item)
        rb == romajiBase(item)
        d1 == IF hb # <<>> /\ rb # <<>> THEN setIfAbsent(d, hb, rb) ELSE d
    IN  IF item.Japanese # item.Hiragana /\ item.Japanese # <<>> /\ rb # <<>>
        THEN setIfAbsent(d1, item.Japanese, rb)
        ELSE d1

RECURSIVE addItems(_, _)
addItems(d, items) ==
    IF items = <<>> THEN d ELSE addItems(addItem(d, Head(items)), Tail(items))

\* です desu  ます masu  ました mashita  ません masen  ください kudasai
commonEndings ==
    << <<<<"DE", "SU">>, <<"d", "e", "s", "u">>>>,
       <<<<"MA", "SU">>, <<"m", "a", "s", "u">>>>,
       <<<<"MA", "SI", "TA">>, <<"m", "a", "s", "h", "i", "t", "a">>>>,
       <<<<"MA", "SE", "N">>, <<"m", "a", "s", "e", "n">>>>,
       <<<<"KU", "DA", "SA", "I">>, <<"k", "u", "d", "a", "s", "a", "i">>>> >>

RECURSIVE addEndings(_, _)
addEndings(d, endings) ==
    IF endings = <<>> THEN d
    ELSE addEndings(setIfAbsent(d, Head(endings)[1], Head(endings)[2]),
                    Tail(endings))

\* the Map the returned closure captures
createRomajiConverter(items) ==
    addEndings(addItems([k \in {} |-> <<>>], items), commonEndings)

\* variant: the dictionary is consulted before the two particle overrides
romajiConverterDictFirst(d, p) ==
    IF p \in DOMAIN d THEN d[p]
    ELSE IF p = <<"HA">> THEN <<"w", "a">>
    ELSE IF p = <<"HE">> THEN <<"e">>
    ELSE toRomajiCharByChar(p)

\* variant: the dictionary lookup is missing
romajiConverterNoDict(d, p) ==
    IF p = <<"HA">> THEN <<"w", "a">>
    ELSE IF p = <<"HE">> THEN <<"e">>
    ELSE toRomajiCharByChar(p)

\* the closure createRomajiConverter returns
romajiConverter(d, p) ==
    IF p = <<"HA">> THEN <<"w", "a">>
    ELSE IF p = <<"HE">> THEN <<"e">>
    ELSE IF p \in DOMAIN d THEN d[p]
    ELSE toRomajiCharByChar(p)

\* ------------------------------------------------------------ inputs
RECURSIVE SeqsUpTo(_, _)
\* the sequences over S of length at most n
SeqsUpTo(S, n) ==
    IF n = 0 THEN {<<>>}
    ELSE LET shorter == SeqsUpTo(S, n - 1)
         IN  shorter \cup {Append(s, c) : s \in shorter, c \in S}

\* ContentItem records (the fields the two factories read)
ItemPool ==
    { \* 猫 ねこ neko
      [Japanese |-> <<"NEKO">>, Hiragana |-> <<"NE", "KO">>,
       Romaji |-> <<"n", "e", "k", "o">>],
      \* an entry that defines its own romaji for は
      [Japanese |-> <<"HA">>, Hiragana |-> <<"HA">>, Romaji |-> <<"h", "a">>],
      \* and one for へ
      [Japanese |-> <<"HE">>, Hiragana |-> <<"HE">>, Romaji |-> <<"h", "e">>],
      \* alternatives separated by "/":  すか/か  suka/ka
      [Japanese |-> <<"SU", "KA">>, Hiragana |-> <<"SU", "KA", "/", "KA">>,
       Romaji |-> <<"s", "u", "k", "a", "/", "k", "a">>],
      \* a parenthetical aside, and a two-word romaji:  かす(す)  ka su
      [Japanese |-> <<"KA", "SU">>, Hiragana |-> <<"KA", "SU", "(", "SU", ")">>,
       Romaji |-> <<"k", "a", " ", "s", "u">>],
      \* a Hiragana field whose first segment is empty
      [Japanese |-> <<"NEKO">>, Hiragana |-> <<" ", "NE">>,
       Romaji |-> <<"n", "e">>] }

Vocabularies == SeqsUpTo(ItemPool, MaxVocab)

SentenceAlphabet == {"DE", "SU", "KA", " ", "LOWLINE"}

SampleSentences ==
    { \* ありがとうございます
      <<"A", "RI", "GA", "TO", "U", "GO", "ZA", "I", "MA", "SU">>,
      <<"x", "y", "z", "1", "2", "3">>,
      \* ねこ＿＿＿です
      <<"NE", "KO", "LOWLINE", "LOWLINE", "LOWLINE", "DE", "SU">>,
      \* ねこ ＿＿＿ です
      <<"NE", "KO", " ", "LOWLINE", "LOWLINE", "LOWLINE", " ", "DE", "SU">>,
      \* 猫＿＿＿猫
      <<"NEKO", "LOWLINE", "LOWLINE", "LOWLINE", "NEKO">>,
      \* すか/か
      <<"SU", "KA", "/", "KA">>,
      \* きっぷ
      <<"KI", "xTU", "PU">> }

Sentences == SeqsUpTo(SentenceAlphabet, MaxSentenceLen) \cup SampleSentences

PartAlphabet == {"HA", "HE", "xTU", "CHOON", "KA"}

SampleParts ==
    { <<"NE", "KO">>, <<"NEKO">>, <<"DE", "SU">>, <<"SU", "KA">>,
      <<"KA", "SU">>, <<"x">>,
      \* きっぷ
      <<"KI", "xTU", "PU">>,
      \* きゃく
      <<"KI", "xYA", "KU">>,
      \* コーヒー
      <<"kKO", "CHOON", "kHI", "CHOON">> }

Parts == SeqsUpTo(PartAlphabet, MaxPartLen) \cup SampleParts

\* ----------------------------------------------------- state machine
\* the state after both factories have run on one vocabulary list
Init ==
    /\ contentItems \in Vocabularies
    /\ allTokensWithBlank = createTokenizer(contentItems)
    /\ dictionary = createRomajiConverter(contentItems)
    /\ op = "none"
    /\ sentence = <<>>
    /\ tokens = <<>>
    /\ part = <<>>
    /\ romaji = <<>>
    /\ remainingSentence = <<>>
    /\ built = contentItems
    /\ log = {}
    /\ game = NoGame
    /\ fillBlanksQuestion = NoFillBlanks
    /\ gen = GenStart
    /\ app = AppStart
    /\ scramble = NoRound

\* one call of the tokenizer closure
Tokenize ==
    /\ op = "none"
    /\ \E s \in Sentences :
          /\ sentence' = s
          /\ tokens' = tokenizer(allTokensWithBlank, s)
    /\ op' = "tokenize"
    /\ UNCHANGED <<game, fillBlanksQuestion, gen, app, scramble, contentItems, allTokensWithBlank, dictionary, part, romaji,
                   remainingSentence, built, log>>

\* one call of the romaji converter closure
Romanize ==
    /\ op = "none"
    /\ \E p \in Parts :
          /\ part' = p
          /\ romaji' = romajiConverter(dictionary, p)
    /\ op' = "romanize"
    /\ UNCHANGED <<game, fillBlanksQuestion, gen, app, scramble, contentItems, allTokensWithBlank, dictionary, sentence, tokens,
                   remainingSentence, built, log>>

Next == Tokenize \/ Romanize

Spec == Init /\ [][Next]_vars

\* ------------------------------------------------------- properties
\* the sentence with its whitespace removed, as the properties read it
stripped == SelectSeq(sentence, LAMBDA c : c # " " /\ c # "IDSP")

\* the number of characters of stripped consumed before token k
Offset(k) == Len(concat(SubSeq(tokens, 1, k - 1)))

\* the input remaining when token k was emitted
Remaining(k) == SubSeq(stripped, Offset(k) + 1, Len(stripped))

FixedCandidates ==
    Range(WORD_EXCEPTIONS) \cup Range(PARTICLES) \cup Range(ENDINGS_PUNCTUATION)
        \cup {BLANK_MARKER}

\* vocabulary words of the loaded list, fixed exceptions, particles,
\* endings/punctuation and the blank marker
Candidates == Range(vocabularyWords(contentItems)) \cup FixedCandidates

\* the candidates among cands that are a prefix of text rem
PrefixesOf(rem, cands) == {c \in cands : startsWith(rem, c)}

\* the candidates that are a prefix of the input remaining at token k
Matching(k) == PrefixesOf(Remaining(k), Candidates)

Arigatou == <<"A", "RI", "GA", "TO", "U">>

ArigatouGozaimasu == <<"A", "RI", "GA", "TO", "U", "GO", "ZA", "I", "MA", "SU">>

\* C1: the tokens of a call, concatenated in order, are the sentence with
\* all whitespace removed; the empty sentence gives no token.
RoundTrip ==
    op = "tokenize" =>
        /\ concat(tokens) = stripped
        /\ (sentence = <<>> => tokens = <<>>)

\* a call on a sentence with whitespace inside that produced several tokens
RoundTripWitness ==
    /\ op = "tokenize"
    /\ Len(tokens) >= 2
    /\ Len(stripped) < Len(sentence)
    /\ stripped # <<>>
    /\ concat(tokens) = stripped

\* C2: at every cursor position where some candidate is a prefix of the
\* remaining input the emitted token is the longest such candidate;
\* ありがとうございます starts with the single token ありがとう.
GreedyLongestMatch ==
    op = "tokenize" =>
        /\ LET cands == Candidates
           IN  \A k \in 1..Len(tokens) :
                   LET m == PrefixesOf(Remaining(k), cands)
                   IN  m # {} =>
                           /\ tokens[k] \in m
                           /\ \A c \in m : Len(c) <= Len(tokens[k])
        /\ (sentence = ArigatouGozaimasu => tokens # <<>> /\ tokens[1] = Arigatou)

\* a position where candidates of three different lengths matched (で, です,
\* ですか) and the longest was emitted
GreedyLongestMatchWitness ==
    /\ op = "tokenize"
    /\ \E k \in 1..Len(tokens) :
          /\ Cardinality({Len(c) : c \in Matching(k)}) >= 3
          /\ \A c \in Matching(k) : Len(c) <= Len(tokens[k])

\* C3: where no candidate is a prefix of the remaining input the token is
\* exactly the next character; xyz123 gives one token per character.
FallbackSingleCharacter ==
    op = "tokenize" =>
        /\ LET cands == Candidates
           IN  \A k \in 1..Len(tokens) :
                   LET rem == Remaining(k)
                   IN  /\ rem # <<>>
                       /\ (PrefixesOf(rem, cands) = {} => tokens[k] = <<rem[1]>>)
        /\ (sentence = <<"x", "y", "z", "1", "2", "3">> =>
               tokens = << <<"x">>, <<"y">>, <<"z">>, <<"1">>, <<"2">>, <<"3">> >>)

\* a call that took the fallback branch between two matched candidates
FallbackSingleCharacterWitness ==
    /\ op = "tokenize"
    /\ \E k \in 2..(Len(tokens) - 1) :
          /\ Matching(k) = {}
          /\ Matching(k - 1) # {}
          /\ Matching(k + 1) # {}
          /\ tokens[k] = <<Remaining(k)[1]>>

\* position p of stripped starts a blank marker that is not part of a longer
\* run of the marker's character
MarkerAt(p) ==
    /\ p + 2 <= Len(stripped)
    /\ SubSeq(stripped, p, p + 2) = BLANK_MARKER
    /\ (p > 1 => stripped[p - 1] # "LOWLINE")
    /\ (p + 3 <= Len(stripped) => stripped[p + 3] # "LOWLINE")

\* C4: a blank marker in the sentence comes out as exactly one token that
\* starts where the marker starts: it is neither broken up nor merged into
\* a neighbouring token.
BlankMarkerAtomic ==
    op = "tokenize" =>
        \A p \in 1..Len(stripped) :
            MarkerAt(p) =>
                \E k \in 1..Len(tokens) :
                    Offset(k) = p - 1 /\ tokens[k] = BLANK_MARKER

\* the marker embedded between Japanese text, emitted as the token between
\* a vocabulary word and an ending
BlankMarkerAtomicWitness ==
    /\ op = "tokenize"
    /\ \E p \in 2..(Len(stripped) - 3) : MarkerAt(p)
    /\ \E k \in 2..(Len(tokens) - 1) :
          /\ tokens[k] = BLANK_MARKER
          /\ tokens[k - 1] \in Range(vocabularyWords(contentItems))
          /\ tokens[k + 1] \in Range(ENDINGS_PUNCTUATION)

\* candidate c occurs somewhere in text s
OccursIn(c, s) ==
    \E i \in 1..Len(s) : i + Len(c) - 1 <= Len(s) /\ SubSeq(s, i, i + Len(c) - 1) = c

\* C5 as stated: with an empty vocabulary list every token has length 1.
EmptyVocabularyAllSingle ==
    (op = "tokenize" /\ contentItems = <<>>) =>
        \A k \in 1..Len(tokens) : Len(tokens[k]) = 1

\* C5 as amended: with an empty vocabulary list the candidates are the fixed
\* ones; every token longer than one character is a fixed candidate, and a
\* sentence in which no multi-character fixed candidate occurs is segmented
\* into single characters only.
EmptyVocabularyFixedOnly ==
    (op = "tokenize" /\ contentItems = <<>>) =>
        /\ Range(allTokensWithBlank) = FixedCandidates
        /\ \A k \in 1..Len(tokens) :
              Len(tokens[k]) = 1 \/ tokens[k] \in FixedCandidates
        /\ ((\A c \in FixedCandidates : Len(c) > 1 => ~OccursIn(c, stripped)) =>
               \A k \in 1..Len(tokens) : Len(tokens[k]) = 1)

\* an empty vocabulary, a fixed ending emitted whole and a fallback character
EmptyVocabularyFixedOnlyWitness ==
    /\ op = "tokenize"
    /\ contentItems = <<>>
    /\ \E k \in 1..Len(tokens) : Len(tokens[k]) > 1 /\ tokens[k] \in FixedCandidates
    /\ \E k \in 1..Len(tokens) : Len(tokens[k]) = 1 /\ tokens[k] \notin FixedCandidates

\* the text before the first character of s that is in delims
UpToFirst(s, delims) ==
    LET cut == {i \in 1..Len(s) : s[i] \in delims}
    IN  IF cut = {} THEN s ELSE SubSeq(s, 1, Minimum(cut) - 1)

\* the canonical form of a Hiragana field: cut at the first "/", "(" or
\* whitespace, trimmed
CanonicalHiragana(h) == trim(UpToFirst(h, {"/", "(", " ", "IDSP"}))

\* C6: the known words the builder adds are the canonical Hiragana forms of
\* the entries (cut at the first "/", "(" or whitespace, trimmed), empty
\* results discarded: an entry with Hiragana A/B contributes the word A.
CanonicalHiraganaExtraction ==
    /\ \A i \in 1..Len(contentItems) :
          LET w == CanonicalHiragana(contentItems[i].Hiragana)
          IN  w # <<>> => w \in Range(allTokensWithBlank)
    /\ \A t \in Range(allTokensWithBlank) :
          \/ t \in FixedCandidates
          \/ \E i \in 1..Len(contentItems) :
                t = CanonicalHiragana(contentItems[i].Hiragana)

\* C7: the romanizer returns wa for the token は and e for the token へ,
\* whatever the dictionary holds for them.
ParticleOverride ==
    op = "romanize" =>
        /\ (part = <<"HA">> => romaji = <<"w", "a">>)
        /\ (part = <<"HE">> => romaji = <<"e">>)

\* は romanized while the dictionary maps は to the authored "ha"
ParticleOverrideWitness ==
    /\ op = "romanize"
    /\ part = <<"HA">>
    /\ <<"HA">> \in DOMAIN dictionary
    /\ dictionary[<<"HA">>] = <<"h", "a">>
    /\ romaji = <<"w", "a">>

\* C8: a token other than は and へ that is a key of the dictionary is
\* romanized as the stored value, not as the transducer's result.
DictionaryPrecedence ==
    (op = "romanize" /\ part \notin {<<"HA">>, <<"HE">>}
        /\ part \in DOMAIN dictionary) =>
            romaji = dictionary[part]

\* a dictionary key whose stored romaji differs from the transducer's result
DictionaryPrecedenceWitness ==
    /\ op = "romanize"
    /\ part \notin {<<"HA">>, <<"HE">>}
    /\ part \in DOMAIN dictionary
    /\ toRomajiCharByChar(part) # dictionary[part]
    /\ romaji = dictionary[part]

\* C9 as stated: a non-empty token has a non-empty romanization.
NonEmptyRomanization ==
    (op = "romanize" /\ part # <<>>) => romaji # <<>>

\* C9 as amended: a token with at least one character other than っ and ー
\* has a non-empty romanization.
NonEmptyRomanizationOfText ==
    (op = "romanize" /\ \E i \in 1..Len(part) : part[i] \notin {"xTU", "CHOON"}) =>
        romaji # <<>>

\* a token outside the dictionary, with a っ in it, romanized by the
\* transducer
NonEmptyRomanizationOfTextWitness ==
    /\ op = "romanize"
    /\ part \notin DOMAIN dictionary
    /\ \E i \in 1..Len(part) : part[i] = "xTU"
    /\ \E i \in 1..Len(part) : part[i] \notin {"xTU", "CHOON"}
    /\ romaji # <<>>

\* the first alternative of an authored Romaji field: cut at the first "/"
\* or parenthesis, trimmed
CanonicalRomaji(r) == trim(UpToFirst(r, {"/", "("}))

\* entry i is the first of the list to produce dictionary key k
FirstWithKey(i, k) ==
    \A j \in 1..(i - 1) :
        hiraganaBase(contentItems[j]) # k /\ contentItems[j].Japanese # k

\* C10: the romaji stored for an entry is the first alternative of its
\* Romaji field, alternatives being delimited by "/" or a parenthetical
\* aside, trimmed: a Romaji without "/" and parenthesis is stored whole and
\* A/B is stored as A.
CanonicalRomajiValue ==
    \A i \in 1..Len(contentItems) :
        LET key == hiraganaBase(contentItems[i])
            value == CanonicalRomaji(contentItems[i].Romaji)
        IN  (key # <<>> /\ value # <<>> /\ FirstWithKey(i, key)) =>
                key \in DOMAIN dictionary /\ dictionary[key] = value

\* the dictionary keys entry item produces: its canonical Hiragana form and,
\* when it differs from the Hiragana field, its Japanese form
KeysOf(item) ==
    IF romajiBase(item) = <<>> THEN {}
    ELSE (IF hiraganaBase(item) # <<>> THEN {hiraganaBase(item)} ELSE {})
         \cup (IF item.Japanese # item.Hiragana /\ item.Japanese # <<>>
               THEN {item.Japanese} ELSE {})

\* the index of the first entry of the list that produces key k
FirstIndex(k) ==
    Minimum({j \in 1..Len(contentItems) : k \in KeysOf(contentItems[j])})

\* C11: when several entries produce the same dictionary key the dictionary
\* keeps the romaji of the entry that comes first in the list.
FirstSeenWins ==
    \A i \in 1..Len(contentItems) :
        \A k \in KeysOf(contentItems[i]) :
            /\ k \in DOMAIN dictionary
            /\ dictionary[k] = romajiBase(contentItems[FirstIndex(k)])

\* two entries with the same key and different romaji; the first one's is kept
FirstSeenWinsWitness ==
    \E i, j \in 1..Len(contentItems) :
        \E k \in KeysOf(contentItems[i]) \cap KeysOf(contentItems[j]) :
            /\ i < j
            /\ romajiBase(contentItems[i]) # romajiBase(contentItems[j])
            /\ dictionary[k] = romajiBase(contentItems[i])

\* ------------------------------------------- the transducer on its own
\* toRomajiCharByChar is a pure function of its argument; the specification
\* below applies it once to each text of a bounded set.
MaxTextLen == 3

\* っ ー か あ き ゃ こ ん, the katakana コ, the kanji 猫, the Latin letter x
TransducerAlphabet ==
    {"xTU", "CHOON", "KA", "A", "KI", "xYA", "KO", "N", "kKO", "NEKO", "x"}

TransducerSamples ==
    { \* きっぷ
      <<"KI", "xTU", "PU">>,
      \* コーヒー
      <<"kKO", "CHOON", "kHI", "CHOON">>,
      \* がっこう
      <<"GA", "xTU", "KO", "U">>,
      \* きっちゃてん
      <<"KI", "xTU", "TI", "xYA", "TE", "N">> }

TransducerTexts == SeqsUpTo(TransducerAlphabet, MaxTextLen) \cup TransducerSamples

InitTransducer ==
    /\ contentItems = <<>>
    /\ allTokensWithBlank = createTokenizer(contentItems)
    /\ dictionary = createRomajiConverter(contentItems)
    /\ op = "none"
    /\ sentence = <<>>
    /\ tokens = <<>>
    /\ part = <<>>
    /\ romaji = <<>>
    /\ remainingSentence = <<>>
    /\ built = contentItems
    /\ log = {}
    /\ game = NoGame
    /\ fillBlanksQuestion = NoFillBlanks
    /\ gen = GenStart
    /\ app = AppStart
    /\ scramble = NoRound

\* one call toRomajiCharByChar(text)
Transliterate ==
    /\ op = "none"
    /\ \E text \in TransducerTexts :
          /\ part' = text
          /\ romaji' = toRomajiCharByChar(text)
    /\ op' = "transliterate"
    /\ UNCHANGED <<game, fillBlanksQuestion, gen, app, scramble, contentItems, allTokensWithBlank, dictionary, sentence, tokens,
                   remainingSentence, built, log>>

NextTransducer == Transliterate

SpecTransducer == InitTransducer /\ [][NextTransducer]_vars

\* the hiragana with a one-character table entry (the table's punctuation
\* marks are not kana)
Punctuation ==
    {"FULLSTOP", "COMMA", "EXCL", "QUES", "LBRACKET", "RBRACKET"}

Hiragana ==
    {key[1] : key \in {k \in DOMAIN ROMANIZATION_TABLE : Len(k) = 1}} \ Punctuation

\* the text before position i and the text after it
Before(text, i) == SubSeq(text, 1, i - 1)

After(text, i) == SubSeq(text, i + 1, Len(text))

\* C12: a small-tsu followed by a kana whose romanization begins with a
\* consonant contributes exactly one copy of that consonant, placed between
\* the output of the text before it and the output of the text after it
\* (which begins with the syllable); a small-tsu that is last, or is followed
\* by a kana whose romanization begins with a vowel, contributes nothing.
\* きっぷ gives "kippu".
Gemination ==
    op = "transliterate" =>
        /\ part = <<"KI", "xTU", "PU">> => romaji = <<"k", "i", "p", "p", "u">>
        /\ \A i \in 1..Len(part) :
              part[i] = "xTU" =>
                LET pre == toRomajiCharByChar(Before(part, i))
                    post == toRomajiCharByChar(After(part, i))
                IN  IF i = Len(part) THEN romaji = pre
                    ELSE IF part[i + 1] \in Hiragana
                    THEN LET first == ROMANIZATION_TABLE[<<part[i + 1]>>][1]
                         IN  IF first \in Vowels
                             THEN romaji = pre \o post
                             ELSE romaji = pre \o <<first>> \o post
                    ELSE TRUE

\* きっぷ has been transliterated to "kippu"
GeminationWitness ==
    /\ op = "transliterate"
    /\ part = <<"KI", "xTU", "PU">>
    /\ romaji = <<"k", "i", "p", "p", "u">>
\* what is emitted while the first i characters of text are processed
OutputUpTo(text, i) == toRomajiCharByChar(SubSeq(text, 1, i))

\* C13: a long-vowel mark at position i appends one copy of the last output
\* character when that character is a vowel and nothing otherwise (output
\* empty, or last character not a vowel), and the mark never appears in the
\* output.
LongVowelRule ==
    op = "transliterate" =>
        /\ "CHOON" \notin Range(romaji)
        /\ \A i \in 1..Len(part) :
              part[i] = "CHOON" =>
                LET emitted == OutputUpTo(part, i - 1)
                    last == emitted[Len(emitted)]
                    after == IF emitted # <<>> /\ last \in Vowels
                             THEN Append(emitted, last)
                             ELSE emitted
                IN  /\ OutputUpTo(part, i) = after
                    /\ startsWith(romaji, after)
                    /\ i = Len(part) => romaji = after

\* こー has given "koo", the mark repeating the vowel
LongVowelRuleWitness ==
    /\ op = "transliterate"
    /\ part = <<"KO", "CHOON">>
    /\ romaji = <<"k", "o", "o">>

\* 猫ー has given "猫", the mark being dropped after a non-vowel
LongVowelDropped ==
    /\ op = "transliterate"
    /\ part = <<"NEKO", "CHOON">>
    /\ romaji = <<"NEKO">>
\* the katakana of the input alphabets: コ ヒ
Katakana == {"kKO", "kHI"}

\* the small kana that only occur as the second character of a digraph
SmallKana == {"xYA", "xYU", "xYO"}

\* a kana string: hiragana, katakana, small kana, small-tsu, long-vowel mark
IsKanaString(text) ==
    Range(text) \subseteq Hiragana \cup Katakana \cup SmallKana \cup {"xTU", "CHOON"}

\* the text ends in an "o" syllable: a hiragana or a digraph whose table
\* entry ends in "o", or the katakana コ
EndsInOSyllable(text) ==
    /\ text # <<>>
    /\ \/ text[Len(text)] = "kKO"
       \/ /\ inTable(<<text[Len(text)]>>)
          /\ LET r == ROMANIZATION_TABLE[<<text[Len(text)]>>] IN r[Len(r)] = "o"
       \/ /\ text[Len(text)] = "xYO"
          /\ Len(text) >= 2
          /\ inTable(SubSeq(text, Len(text) - 1, Len(text)))

\* C14: a kana string, hiragana or katakana, that ends in an "o" syllable
\* followed by the long-vowel mark is romanized to text ending in "oo".
LongVowelAfterO ==
    (/\ op = "transliterate"
     /\ IsKanaString(part)
     /\ Len(part) >= 2
     /\ part[Len(part)] = "CHOON"
     /\ EndsInOSyllable(Before(part, Len(part))))
    => /\ Len(romaji) >= 2
       /\ SubSeq(romaji, Len(romaji) - 1, Len(romaji)) = <<"o", "o">>

\* C15: the table has an entry for every kana, hiragana and katakana alike,
\* so no kana syllable of the input is passed through to the output.
TableCoverage ==
    op = "transliterate" =>
        \A i \in 1..Len(part) :
            part[i] \in Hiragana \cup Katakana =>
                /\ inTable(<<part[i]>>)
                /\ part[i] \notin Range(romaji)

\* C16: where a table digraph begins (such a position is never a small-tsu,
\* a long-vowel mark or the second character of another digraph) both
\* characters are consumed and the digraph's mapping is emitted: the output
\* up to the digraph's second character is the output up to the character
\* before the digraph (a small-tsu there doubling the digraph's consonant)
\* followed by the digraph's mapping.  きゃ gives "kya".
DigraphPrecedence ==
    op = "transliterate" =>
        /\ part = <<"KI", "xYA">> => romaji = <<"k", "y", "a">>
        /\ \A i \in 1..(Len(part) - 1) :
              inTable(SubSeq(part, i, i + 1)) =>
                LET mapped == ROMANIZATION_TABLE[SubSeq(part, i, i + 1)]
                    doubled == IF i > 1 /\ part[i - 1] = "xTU"
                               THEN <<mapped[1]>> ELSE <<>>
                    emitted == OutputUpTo(part, i - 1) \o doubled \o mapped
                IN  /\ OutputUpTo(part, i + 1) = emitted
                    /\ startsWith(romaji, emitted)

\* a digraph inside a longer text has been transliterated as a unit
DigraphPrecedenceWitness ==
    /\ op = "transliterate"
    /\ part = <<"KA", "KI", "xYA">>
    /\ romaji = <<"k", "a", "k", "y", "a">>

\* characters of the input alphabet that are outside the table: the kanji 猫
\* and the Latin letter x (no table entry emits either)
Unmapped == {"NEKO", "x"}

IsUnmapped(c) == c \in Unmapped

\* C17: the characters outside the table, other than the small-tsu and the
\* long-vowel mark, appear in the output once per occurrence and in input
\* order.
VerbatimPassThrough ==
    op = "transliterate" =>
        SelectSeq(romaji, IsUnmapped) = SelectSeq(part, IsUnmapped)
\* ------------------------------------------ repeated calls of the closures
\* The closures are built once from the list `built`; afterwards they are
\* called any number of times, in any order, and the caller's list
\* contentItems may be replaced (the closures built from the old list are
\* still held by the asynchronous generateGames that is in flight).
HistoryVocabularies == {<<>>} \cup {<<item>> : item \in ItemPool}

HistorySentences ==
    { \* ねこです
      <<"NE", "KO", "DE", "SU">>,
      \* すか
      <<"SU", "KA">> }

HistoryParts ==
    { \* ねこ
      <<"NE", "KO">>,
      \* は
      <<"HA">> }

InitHistory ==
    /\ built \in HistoryVocabularies
    /\ contentItems = built
    /\ allTokensWithBlank = createTokenizer(built)
    /\ dictionary = createRomajiConverter(built)
    /\ op = "none"
    /\ sentence = <<>>
    /\ tokens = <<>>
    /\ part = <<>>
    /\ romaji = <<>>
    /\ remainingSentence = <<>>
    /\ log = [tokenized |-> {}, romanized |-> {}]
    /\ game = NoGame
    /\ fillBlanksQuestion = NoFillBlanks
    /\ gen = GenStart
    /\ app = AppStart
    /\ scramble = NoRound

\* variant: the closure reads the caller's current list at each call
CallTokenizerLive ==
    /\ \E s \in HistorySentences :
          /\ sentence' = s
          /\ tokens' = tokenizer(createTokenizer(contentItems), s)
    /\ op' = "tokenize"
    /\ log' = [log EXCEPT !.tokenized = @ \cup {[input |-> sentence', output |-> tokens']}]
    /\ UNCHANGED <<game, fillBlanksQuestion, gen, app, scramble, contentItems, built, allTokensWithBlank, dictionary, part,
                   romaji, remainingSentence>>

\* a call of the tokenizer closure, whatever was called before
CallTokenizer ==
    /\ \E s \in HistorySentences :
          /\ sentence' = s
          /\ tokens' = tokenizer(allTokensWithBlank, s)
    /\ op' = "tokenize"
    /\ log' = [log EXCEPT !.tokenized = @ \cup {[input |-> sentence', output |-> tokens']}]
    /\ UNCHANGED <<game, fillBlanksQuestion, gen, app, scramble, contentItems, built, allTokensWithBlank, dictionary, part,
                   romaji, remainingSentence>>

\* a call of the romaji closure, whatever was called before
CallRomajiConverter ==
    /\ \E p \in HistoryParts :
          /\ part' = p
          /\ romaji' = romajiConverter(dictionary, p)
    /\ op' = "romanize"
    /\ log' = [log EXCEPT !.romanized = @ \cup {[input |-> part', output |-> romaji']}]
    /\ UNCHANGED <<game, fillBlanksQuestion, gen, app, scramble, contentItems, built, allTokensWithBlank, dictionary, sentence,
                   tokens, remainingSentence>>

\* the caller's list is replaced; the closures already built are not touched
ChangeVocabulary ==
    /\ \E items \in HistoryVocabularies \ {contentItems} : contentItems' = items
    /\ UNCHANGED <<game, fillBlanksQuestion, gen, app, scramble, built, allTokensWithBlank, dictionary, op, sentence, tokens,
                   part, romaji, remainingSentence, log>>

NextHistory == CallTokenizer \/ CallRomajiConverter \/ ChangeVocabulary

SpecHistory == InitHistory /\ [][NextHistory]_vars

\* C18: every call made so far returned what the snapshot the closures were
\* built from and the call's input determine, whatever was called before and
\* whatever the vocabulary list has become since (so equal inputs gave equal
\* outputs); the candidate list and the dictionary are still those built from
\* the snapshot, and no call changes the vocabulary list or either of them.
HistoryIndependence ==
    /\ [](/\ allTokensWithBlank = createTokenizer(built)
          /\ dictionary = createRomajiConverter(built)
          /\ \A c \in log.tokenized :
                c.output = tokenizer(createTokenizer(built), c.input)
          /\ \A c \in log.romanized :
                c.output = romajiConverter(createRomajiConverter(built), c.input)
          /\ \A c, d \in log.tokenized : c.input = d.input => c.output = d.output
          /\ \A c, d \in log.romanized : c.input = d.input => c.output = d.output)
    /\ [][log' # log =>
             UNCHANGED <<contentItems, built, allTokensWithBlank, dictionary>>]_vars

\* the vocabulary list has changed since the closures were built, calls of
\* both closures have been made, and the last segmentation returned what the
\* snapshot gives, which is not what the current list would give
HistoryIndependenceWitness ==
    /\ contentItems # built
    /\ op = "tokenize"
    /\ [input |-> sentence, output |-> tokens] \in log.tokenized
    /\ tokens = tokenizer(createTokenizer(built), sentence)
    /\ tokens # tokenizer(createTokenizer(contentItems), sentence)
    /\ Cardinality(log.tokenized) = 2
    /\ Cardinality(log.romanized) = 2
\* ----------------------------------- the segmentation loop, step by step
\* One behaviour is one call of the tokenizer closure, one loop iteration
\* per step: op is "tokenizing" while the while loop runs and "tokenize"
\* once the closure has returned.
InitLoop ==
    /\ contentItems \in HistoryVocabularies
    /\ allTokensWithBlank = createTokenizer(contentItems)
    /\ dictionary = createRomajiConverter(contentItems)
    /\ op = "none"
    /\ sentence = <<>>
    /\ tokens = <<>>
    /\ part = <<>>
    /\ romaji = <<>>
    /\ remainingSentence = <<>>
    /\ built = contentItems
    /\ log = {}
    /\ game = NoGame
    /\ fillBlanksQuestion = NoFillBlanks
    /\ gen = GenStart
    /\ app = AppStart
    /\ scramble = NoRound

\* the call: the early return for the empty sentence, otherwise the
\* whitespace is removed and the loop is entered
StartTokenize ==
    /\ op = "none"
    /\ \E s \in Sentences :
          /\ sentence' = s
          /\ remainingSentence' = IF s = <<>> THEN <<>> ELSE removeWhitespace(s)
          /\ op' = IF s = <<>> THEN "tokenize" ELSE "tokenizing"
    /\ tokens' = <<>>
    /\ UNCHANGED <<game, fillBlanksQuestion, gen, app, scramble, contentItems, allTokensWithBlank, dictionary, part, romaji,
                   built, log>>

\* one iteration of the while loop
LoopStep ==
    /\ op = "tokenizing"
    /\ Len(remainingSentence) > 0
    /\ LET m == firstMatch(allTokensWithBlank, remainingSentence)
       IN  IF m # 0
           THEN /\ tokens' = Append(tokens, allTokensWithBlank[m])
                /\ remainingSentence' =
                       substring(remainingSentence, Len(allTokensWithBlank[m]))
           ELSE /\ tokens' = Append(tokens, fallbackToken(remainingSentence))
                /\ remainingSentence' = substring(remainingSentence, 1)
    /\ UNCHANGED <<game, fillBlanksQuestion, gen, app, scramble, contentItems, allTokensWithBlank, dictionary, op, sentence,
                   part, romaji, built, log>>

\* the loop condition fails: return tokens.filter(Boolean)
ReturnTokens ==
    /\ op = "tokenizing"
    /\ Len(remainingSentence) = 0
    /\ tokens' = SelectSeq(tokens, LAMBDA t : t # <<>>)
    /\ op' = "tokenize"
    /\ UNCHANGED <<game, fillBlanksQuestion, gen, app, scramble, contentItems, allTokensWithBlank, dictionary, sentence, part,
                   romaji, remainingSentence, built, log>>

NextLoop == StartTokenize \/ LoopStep \/ ReturnTokens

\* the closure is synchronous code: once called it runs until it returns
SpecLoop ==
    InitLoop /\ [][NextLoop]_vars /\ WF_vars(LoopStep) /\ WF_vars(ReturnTokens)

\* C19: every iteration of the loop leaves strictly less of the sentence to
\* segment, every call that has entered the loop returns, and the returned
\* list (which is what the closure computes in one piece) has no empty token.
ProgressAndTermination ==
    /\ [][(op = "tokenizing" /\ op' = "tokenizing") =>
             Len(remainingSentence') < Len(remainingSentence)]_vars
    /\ [](op = "tokenize" =>
             /\ \A i \in 1..Len(tokens) : tokens[i] # <<>>
             /\ tokens = tokenizer(allTokensWithBlank, sentence))
    /\ (op = "tokenizing" ~> op = "tokenize")

\* a call has returned after iterations that matched a candidate and
\* iterations that fell back to a single character, with a vocabulary entry
\* whose canonical form is empty
ProgressAndTerminationWitness ==
    /\ op = "tokenize"
    /\ Len(contentItems) = 1
    /\ hiraganaBase(contentItems[1]) = <<>>
    /\ sentence = <<"SU", " ", "KA">>
    /\ tokens = << <<"SU">>, <<"KA">> >>
\* ------------------------------------ splitSentence (Sentence Scramble)
\* SentenceScramble.tsx has its own copy of the exception list, the particles
\* and the endings; they are the lists WORD_EXCEPTIONS, PARTICLES and
\* ENDINGS_PUNCTUATION above.
MaxAffixLen == 1

\* the template literal __EX_${i}__ for the exception of 0-based index i
placeholder(i) ==
    <<"_", "_", "E", "X", "_">> \o << <<"0", "1", "2", "3", "4">>[i + 1] >> \o <<"_", "_">>

placeholders == [k \in 1..Len(WORD_EXCEPTIONS) |-> placeholder(k - 1)]

RECURSIVE replaceAll(_, _, _)
\* s.replace(new RegExp(pattern, 'g'), replacement) for a literal pattern
replaceAll(s, pattern, replacement) ==
    IF s = <<>> THEN <<>>
    ELSE IF startsWith(s, pattern)
    THEN replacement \o replaceAll(substring(s, Len(pattern)), pattern, replacement)
    ELSE <<Head(s)>> \o replaceAll(Tail(s), pattern, replacement)

RECURSIVE replaceExceptions(_, _)
\* WORD_EXCEPTIONS.forEach((exc, i) => tempSentence = tempSentence.replace(...))
replaceExceptions(s, k) ==
    IF k > Len(WORD_EXCEPTIONS) THEN s
    ELSE replaceExceptions(replaceAll(s, WORD_EXCEPTIONS[k], placeholders[k]), k + 1)

\* [...particles, ...endingsAndPunctuation] sorted by length, longest first
delimiters == sortByLengthDesc(PARTICLES \o ENDINGS_PUNCTUATION)

RECURSIVE splitAt(_, _, _)
\* s.split(regex) with regex = (d1|d2|...): piece is the text since the last
\* match; at each position the first alternative that matches is taken, and
\* the captured delimiter is part of the result
splitAt(s, piece, acc) ==
    IF s = <<>> THEN Append(acc, piece)
    ELSE LET m == firstMatch(delimiters, s)
         IN  IF m # 0
             THEN splitAt(substring(s, Len(delimiters[m])), <<>>,
                          acc \o <<piece, delimiters[m]>>)
             ELSE splitAt(Tail(s), Append(piece, Head(s)), acc)

\* parts that are exactly a placeholder become the exception word again
restore(p) ==
    IF \E k \in 1..Len(placeholders) : placeholders[k] = p
    THEN WORD_EXCEPTIONS[CHOOSE k \in 1..Len(placeholders) : placeholders[k] = p]
    ELSE p

splitSentence(s) ==
    LET tempSentence == replaceExceptions(s, 1)
        splitParts == SelectSeq(splitAt(removeWhitespace(tempSentence), <<>>, <<>>),
                                LAMBDA p : trim(p) # <<>>)
    IN  [i \in 1..Len(splitParts) |-> restore(splitParts[i])]

\* と 。 the kanji 猫, ご (in no list), a space
AffixAlphabet == {"TO", "FULLSTOP", "NEKO", "GO", " "}

Affixes == SeqsUpTo(AffixAlphabet, MaxAffixLen)

\* an exception word with any text before and after it
ScrambleSentences ==
    {pre \o WORD_EXCEPTIONS[k] \o post :
        pre \in Affixes, post \in Affixes, k \in 1..Len(WORD_EXCEPTIONS)}
    \cup { ArigatouGozaimasu }

InitScramble ==
    /\ contentItems = <<>>
    /\ allTokensWithBlank = createTokenizer(contentItems)
    /\ dictionary = createRomajiConverter(contentItems)
    /\ op = "none"
    /\ sentence = <<>>
    /\ tokens = <<>>
    /\ part = <<>>
    /\ romaji = <<>>
    /\ remainingSentence = <<>>
    /\ built = contentItems
    /\ log = {}
    /\ game = NoGame
    /\ fillBlanksQuestion = NoFillBlanks
    /\ gen = GenStart
    /\ app = AppStart
    /\ scramble = NoRound

\* one call splitSentence(sentence)
SplitSentence ==
    /\ op = "none"
    /\ \E s \in ScrambleSentences :
          /\ sentence' = s
          /\ tokens' = splitSentence(s)
    /\ op' = "split"
    /\ UNCHANGED <<game, fillBlanksQuestion, gen, app, scramble, contentItems, allTokensWithBlank, dictionary, part, romaji,
                   remainingSentence, built, log>>

NextScramble == SplitSentence

SpecScramble == InitScramble /\ [][NextScramble]_vars

\* C20: for a sentence that contains an exception word, whatever precedes or
\* follows it, splitSentence returns that word as a part of its own, the
\* parts joined are the sentence without its whitespace, and no part holds
\* placeholder text.
ExceptionWordsUnbreakable ==
    op = "split" =>
        \A k \in 1..Len(WORD_EXCEPTIONS) :
            OccursIn(WORD_EXCEPTIONS[k], sentence) =>
                /\ WORD_EXCEPTIONS[k] \in Range(tokens)
                /\ concat(tokens) = removeWhitespace(sentence)
                /\ \A i \in 1..Len(tokens) : "_" \notin Range(tokens[i])
\* the Latin consonant letters
Consonants ==
    {"b", "c", "d", "f", "g", "h", "j", "k", "l", "m", "n", "p", "q", "r", "s",
     "t", "v", "w", "x", "y", "z"}

\* C22: whatever follows a small-tsu, what the small-tsu contributes is
\* nothing or exactly one Latin consonant letter: the output is what the
\* loop gives when it continues after the small-tsu with the output of the
\* text before it, extended by nothing or by one consonant.  (The Latin
\* letter x of the input alphabet is itself a consonant, so it is the kanji
\* and the katakana that show the difference.)
SmallTsuDoublesConsonantOnly ==
    op = "transliterate" =>
        \A i \in 1..Len(part) :
            part[i] = "xTU" =>
                \E c \in {<<>>} \cup {<<l>> : l \in Consonants} :
                    romaji = romajiLoop(part, i + 1, OutputUpTo(part, i - 1) \o c)
\* ------------------------------------------- a Sentence Scramble round
\* item.japanese.replace(/[()（）]/g, '')
removeParens(s) ==
    SelectSeq(s, LAMBDA c : c \notin {"(", ")", "FLPAREN", "FRPAREN"})

\* the sentences the AI service returns
UpstreamSentences ==
    { \* ねこですか
      <<"NE", "KO", "DE", "SU", "KA">>,
      \* ねこ です か
      <<"NE", "KO", " ", "DE", "SU", " ", "KA">>,
      \* (ねこ)ですか
      <<"(", "NE", "KO", ")", "DE", "SU", "KA">>,
      \* こんにちは、ねこです
      <<"KO", "N", "NI", "TI", "HA", "COMMA", "NE", "KO", "DE", "SU">>,
      \* ねこ
      <<"NE", "KO">> }

\* the japanese field stored with the question
storedJapanese(cleanJapanese) == cleanJapanese

\* the state setupRound(0, questions) leaves for a question
round(japanese, words) ==
    [isLoading |-> FALSE, japanese |-> japanese, words |-> words,
     scrambledOptions |-> 1..Len(words), userAnswer |-> <<>>,
     isAnswered |-> FALSE, isCorrect |-> FALSE]

InitRound ==
    /\ contentItems \in HistoryVocabularies
    /\ allTokensWithBlank = createTokenizer(contentItems)
    /\ dictionary = createRomajiConverter(contentItems)
    /\ op = "none"
    /\ sentence = <<>>
    /\ tokens = <<>>
    /\ part = <<>>
    /\ romaji = <<>>
    /\ remainingSentence = <<>>
    /\ built = contentItems
    /\ log = {}
    /\ game = NoGame
    /\ fillBlanksQuestion = NoFillBlanks
    /\ gen = GenStart
    /\ app = AppStart
    /\ scramble = NoRound

\* useAiGameGenerator: a scramble question is built with the tokenizer and
\* kept when it has at least three words
ProcessScramble ==
    /\ scramble = NoRound
    /\ \E s \in UpstreamSentences :
          LET cleanJapanese == removeParens(s)
              words == tokenizer(allTokensWithBlank, cleanJapanese)
          IN  /\ Len(words) >= 3
              /\ sentence' = s
              /\ scramble' = round(storedJapanese(cleanJapanese), words)
    /\ UNCHANGED <<game, fillBlanksQuestion, gen, app, contentItems, allTokensWithBlank, dictionary, op, tokens, part,
                   romaji, remainingSentence, built, log>>

\* SentenceScramble's own generation: the question is built with
\* splitSentence and kept when it has at least three words
GenerateSentences ==
    /\ scramble = NoRound
    /\ \E s \in UpstreamSentences :
          LET cleanJapanese == removeParens(s)
              words == splitSentence(cleanJapanese)
          IN  /\ Len(words) >= 3
              /\ sentence' = s
              /\ scramble' = round(storedJapanese(cleanJapanese), words)
    /\ UNCHANGED <<game, fillBlanksQuestion, gen, app, contentItems, allTokensWithBlank, dictionary, op, tokens, part,
                   romaji, remainingSentence, built, log>>

\* a tile is moved from the offered tiles to the answer
handleOptionClick ==
    /\ ~scramble.isLoading
    /\ \E option \in scramble.scrambledOptions :
          scramble' = [scramble EXCEPT
                          !.userAnswer = Append(@, option),
                          !.scrambledOptions = @ \ {option}]
    /\ UNCHANGED <<game, fillBlanksQuestion, gen, app, contentItems, allTokensWithBlank, dictionary, op, sentence,
                   tokens, part, romaji, remainingSentence, built, log>>

\* a placed tile is moved back to the offered tiles
handleAnswerClick ==
    /\ ~scramble.isLoading
    /\ \E k \in 1..Len(scramble.userAnswer) :
          scramble' = [scramble EXCEPT
                          !.userAnswer = SelectSeq(@, LAMBDA o : o # scramble.userAnswer[k]),
                          !.scrambledOptions = @ \cup {scramble.userAnswer[k]}]
    /\ UNCHANGED <<game, fillBlanksQuestion, gen, app, contentItems, allTokensWithBlank, dictionary, op, sentence,
                   tokens, part, romaji, remainingSentence, built, log>>

\* userAnswer.map(item => item.word).join('')
submittedAnswer(q) ==
    concat([k \in 1..Len(q.userAnswer) |-> q.words[q.userAnswer[k]]])

handleCheck ==
    /\ ~scramble.isLoading
    /\ ~scramble.isAnswered
    /\ Len(scramble.userAnswer) # 0
    /\ scramble' = [scramble EXCEPT
                        !.isCorrect = (submittedAnswer(scramble) = scramble.japanese),
                        !.isAnswered = TRUE]
    /\ UNCHANGED <<game, fillBlanksQuestion, gen, app, contentItems, allTokensWithBlank, dictionary, op, sentence,
                   tokens, part, romaji, remainingSentence, built, log>>

NextRound ==
    \/ ProcessScramble
    \/ GenerateSentences
    \/ handleOptionClick
    \/ handleAnswerClick
    \/ handleCheck

SpecRound == InitRound /\ [][NextRound]_vars

\* all tiles placed in their original order
InOriginalOrder(q) ==
    q.userAnswer = [k \in 1..Len(q.words) |-> k]

\* C21: the word tiles of every scramble question, joined in original order,
\* are the stored japanese sentence, and an answer that places all tiles in
\* original order is judged correct when checked.
ScrambleSolvable ==
    ~scramble.isLoading =>
        /\ concat(scramble.words) = scramble.japanese
        /\ (scramble.isAnswered /\ InOriginalOrder(scramble)) => scramble.isCorrect
\* ------------------------------------------- App and useContentLoader
\* the unit numbers offered for selection are 1..MaxUnit
MaxUnit == 3

\* the arrays toggleUnit can build: units in the order they were selected
UnitSelections ==
    {u \in SeqsUpTo(1..MaxUnit, MaxUnit) :
        u # <<>> /\ \A i, j \in 1..Len(u) : i # j => u[i] # u[j]}

Activities ==
    {"flashcards", "quiz", "category_sort", "matching_game", "listening_game",
     "sentence_scramble"}

\* what renderView returns: the spinner, the error screen or the view
renderView(a) ==
    IF a.isLoading THEN "loading"
    ELSE IF a.error # "null" THEN "error"
    ELSE a.view

\* the effect of useContentLoader, run when the unit numbers have changed:
\* without units the content is cleared and nothing else is touched,
\* otherwise loadContent starts
loaderEffect(a) ==
    IF Len(a.selectedUnits) = 0
    THEN [a EXCEPT !.content = <<>>]
    ELSE [a EXCEPT !.isLoading = TRUE, !.error = "null",
                   !.pending = @ \cup {a.selectedUnits}]

InitApp ==
    /\ contentItems = <<>>
    /\ allTokensWithBlank = createTokenizer(contentItems)
    /\ dictionary = createRomajiConverter(contentItems)
    /\ op = "none"
    /\ sentence = <<>>
    /\ tokens = <<>>
    /\ part = <<>>
    /\ romaji = <<>>
    /\ remainingSentence = <<>>
    /\ built = contentItems
    /\ log = {}
    /\ game = NoGame
    /\ fillBlanksQuestion = NoFillBlanks
    /\ gen = GenStart
    /\ scramble = NoRound
    /\ app = AppStart

AppFrame ==
    UNCHANGED <<game, fillBlanksQuestion, gen, contentItems, allTokensWithBlank, dictionary, op, sentence, tokens,
                part, romaji, remainingSentence, built, log, scramble>>

toggleTheme ==
    /\ app' = [app EXCEPT !.theme = IF @ = "dark" THEN "light" ELSE "dark"]
    /\ AppFrame

\* "Start Studying" on the unit selector
handleUnitsSelected ==
    /\ renderView(app) = "unit_selection"
    /\ \E units \in UnitSelections :
          app' = IF units = app.selectedUnits
                 THEN [app EXCEPT !.view = "activity_selection"]
                 ELSE loaderEffect([app EXCEPT !.selectedUnits = units,
                                               !.view = "activity_selection"])
    /\ AppFrame

handleActivitySelected ==
    /\ renderView(app) = "activity_selection"
    /\ \E activity \in Activities : app' = [app EXCEPT !.view = activity]
    /\ AppFrame

\* "Back" on the activity selector and "Try Again" on the error screen
handleBackToUnitSelection ==
    /\ renderView(app) \in {"activity_selection", "error"}
    /\ app' = IF app.selectedUnits = <<>>
              THEN [app EXCEPT !.view = "unit_selection"]
              ELSE loaderEffect([app EXCEPT !.selectedUnits = <<>>,
                                            !.view = "unit_selection"])
    /\ AppFrame

handleBackToActivitySelection ==
    /\ renderView(app) \in Activities
    /\ app' = [app EXCEPT !.view = "activity_selection"]
    /\ AppFrame

\* every fetch of a loadContent succeeded
LoadSucceeds ==
    /\ \E units \in app.pending :
          app' = [app EXCEPT !.content = units, !.isLoading = FALSE,
                             !.pending = @ \ {units}]
    /\ AppFrame

\* a fetch of a loadContent failed
LoadFails ==
    /\ \E units \in app.pending :
          app' = [app EXCEPT !.error = "Failed to fetch unit data.",
                             !.isLoading = FALSE, !.pending = @ \ {units}]
    /\ AppFrame

NextApp ==
    \/ toggleTheme
    \/ handleUnitsSelected
    \/ handleActivitySelected
    \/ handleBackToUnitSelection
    \/ handleBackToActivitySelection
    \/ LoadSucceeds
    \/ LoadFails

SpecApp == InitApp /\ [][NextApp]_vars

\* C23: "Try Again" on the error screen leads to the unit selector being
\* displayed again.
TryAgainRecovers ==
    [][(renderView(app) = "error" /\ handleBackToUnitSelection)
          => renderView(app') = "unit_selection"]_vars
\* ------------------------------------------------ useAiGameGenerator
\* at most MaxRuns runs of generateGames are started in a behaviour
MaxRuns == 3

\* how a run can end: all three games processed, the AI service call
\* rejected, or no valid question left for one of the games
Outcomes == {"ok", "service", "scramble", "fillBlanks", "correctTheError"}

\* the early return of the effect (fewer than 15 vocabulary items)
notEnoughVocabulary(g) ==
    [g EXCEPT !.scrambleQuestions = <<>>, !.fillBlanksQuestions = <<>>,
              !.correctTheErrorQuestions = <<>>, !.isGenerating = FALSE,
              !.generationError = IF g.vocabulary = "none" THEN "null"
                                  ELSE "Not enough vocabulary for AI games.",
              !.latest = 0]

\* generateGames up to its await
startRun(g) ==
    [g EXCEPT !.isGenerating = TRUE, !.generationError = "null",
              !.started = @ + 1, !.runs = @ \cup {g.started + 1},
              !.latest = g.started + 1]

\* the effect of the hook
generatorEffect(g) ==
    IF g.vocabulary # "enough" THEN notEnoughVocabulary(g) ELSE startRun(g)

setScrambleQuestions(g, r) == [g EXCEPT !.scrambleQuestions = <<r>>]

setFillBlanksQuestions(g, r) == [g EXCEPT !.fillBlanksQuestions = <<r>>]

setCorrectTheErrorQuestions(g, r) == [g EXCEPT !.correctTheErrorQuestions = <<r>>]

\* variant: the catch block only records the error
catchKeepsQuestions(g) == [g EXCEPT !.generationError = "AI Generation Error"]

catchBlock(g) ==
    [g EXCEPT !.generationError = "AI Generation Error",
              !.scrambleQuestions = <<>>, !.fillBlanksQuestions = <<>>,
              !.correctTheErrorQuestions = <<>>]

finallyBlock(g) == [g EXCEPT !.isGenerating = FALSE]

\* generateGames after its await, for run r ending with the given outcome:
\* the setters are called in the order of the code
settle(g, r, outcome) ==
    finallyBlock(
        CASE outcome = "service" -> catchBlock(g)
          [] outcome = "scramble" -> catchBlock(g)
          [] outcome = "fillBlanks" -> catchBlock(setScrambleQuestions(g, r))
          [] outcome = "correctTheError" ->
                catchBlock(setFillBlanksQuestions(setScrambleQuestions(g, r), r))
          [] OTHER ->
                setCorrectTheErrorQuestions(
                    setFillBlanksQuestions(setScrambleQuestions(g, r), r), r))

InitGenerator ==
    /\ contentItems = <<>>
    /\ allTokensWithBlank = createTokenizer(contentItems)
    /\ dictionary = createRomajiConverter(contentItems)
    /\ op = "none"
    /\ sentence = <<>>
    /\ tokens = <<>>
    /\ part = <<>>
    /\ romaji = <<>>
    /\ remainingSentence = <<>>
    /\ built = contentItems
    /\ log = {}
    /\ game = NoGame
    /\ fillBlanksQuestion = NoFillBlanks
    /\ scramble = NoRound
    /\ app = AppStart
    /\ gen = GenStart

GeneratorFrame ==
    UNCHANGED <<game, fillBlanksQuestion, contentItems, allTokensWithBlank, dictionary, op, sentence, tokens,
                part, romaji, remainingSentence, built, log, scramble, app>>

\* regenerate(): the trigger changes and the effect runs again
regenerate ==
    /\ gen.vocabulary = "enough" => gen.started < MaxRuns
    /\ gen' = generatorEffect(gen)
    /\ GeneratorFrame

\* the hook is rendered with another content list and the effect runs again
ContentChange ==
    /\ \E v \in {"none", "few", "enough"} \ {gen.vocabulary} :
          /\ v = "enough" => gen.started < MaxRuns
          /\ gen' = generatorEffect([gen EXCEPT !.vocabulary = v])
    /\ GeneratorFrame

\* the AI service has answered (or failed) and the rest of generateGames runs
Settle ==
    /\ \E r \in gen.runs : \E outcome \in Outcomes :
          gen' = [settle(gen, r, outcome) EXCEPT
                     !.runs = @ \ {r},
                     !.outcome = [k \in DOMAIN @ \cup {r} |->
                                     IF k = r THEN outcome ELSE @[k]]]
    /\ GeneratorFrame

NextGenerator == regenerate \/ ContentChange \/ Settle

SpecGenerator == InitGenerator /\ [][NextGenerator]_vars
\* the three question lists
Lists(g) == {g.scrambleQuestions, g.fillBlanksQuestions, g.correctTheErrorQuestions}

\* C24: once every run has settled, the lists and the error shown are those
\* of the run started last (or of the early return, when the latest effect
\* took it).
LatestGenerationWins ==
    gen.runs = {} =>
        IF gen.latest = 0
        THEN Lists(gen) = {<<>>} /\ gen.generationError # "AI Generation Error"
        ELSE IF gen.outcome[gen.latest] = "ok"
        THEN Lists(gen) = {<<gen.latest>>} /\ gen.generationError = "null"
        ELSE Lists(gen) = {<<>>} /\ gen.generationError = "AI Generation Error"

\* C25: isGenerating is true whenever a run has started and not yet settled.
IsGeneratingTracksRuns ==
    gen.runs # {} => gen.isGenerating

\* a run that failed has just settled
FailedRunSettles ==
    \E r \in gen.runs : r \notin gen'.runs /\ gen'.outcome[r] # "ok"

\* C26: the three lists are always all empty or all non-empty, and a run that
\* fails, at whatever game, leaves them all empty with generationError set
\* and isGenerating false.
AllOrNothing ==
    /\ [](\/ \A l \in Lists(gen) : l = <<>>
          \/ \A l \in Lists(gen) : l # <<>>)
    /\ [][FailedRunSettles =>
             /\ Lists(gen') = {<<>>}
             /\ gen'.generationError # "null"
             /\ ~gen'.isGenerating]_vars

\* a run has failed at the last game, after the questions of the first two
\* had been set, and the lists are empty
AllOrNothingWitness ==
    /\ gen.started = 1
    /\ gen.runs = {}
    /\ gen.outcome[1] = "correctTheError"
    /\ Lists(gen) = {<<>>}
    /\ gen.generationError = "AI Generation Error"
    /\ ~gen.isGenerating
\* ------------------------------- fill-in-the-blanks question processing
\* a vocabulary list of fifteen items: two animals, five foods, eight
\* school words
FifteenItems ==
    <<
      \* ねこ
      [Category |-> "Vocabulary", SubCategory |-> "Animals",
       Japanese |-> <<"NE", "KO">>,
       Hiragana |-> <<"NE", "KO">>,
       Romaji |-> <<"n", "e", "k", "o">>],
      \* いぬ
      [Category |-> "Vocabulary", SubCategory |-> "Animals",
       Japanese |-> <<"I", "NU">>,
       Hiragana |-> <<"I", "NU">>,
       Romaji |-> <<"i", "n", "u">>],
      \* すし
      [Category |-> "Vocabulary", SubCategory |-> "Food",
       Japanese |-> <<"SU", "SI">>,
       Hiragana |-> <<"SU", "SI">>,
       Romaji |-> <<"s", "u", "s", "h", "i">>],
      \* にく
      [Category |-> "Vocabulary", SubCategory |-> "Food",
       Japanese |-> <<"NI", "KU">>,
       Hiragana |-> <<"NI", "KU">>,
       Romaji |-> <<"n", "i", "k", "u">>],
      \* みず
      [Category |-> "Vocabulary", SubCategory |-> "Food",
       Japanese |-> <<"MI", "ZU">>,
       Hiragana |-> <<"MI", "ZU">>,
       Romaji |-> <<"m", "i", "z", "u">>],
      \* おちゃ
      [Category |-> "Vocabulary", SubCategory |-> "Food",
       Japanese |-> <<"O", "TI", "xYA">>,
       Hiragana |-> <<"O", "TI", "xYA">>,
       Romaji |-> <<"o", "c", "h", "a">>],
      \* たまご
      [Category |-> "Vocabulary", SubCategory |-> "Food",
       Japanese |-> <<"TA", "MA", "GO">>,
       Hiragana |-> <<"TA", "MA", "GO">>,
       Romaji |-> <<"t", "a", "m", "a", "g", "o">>],
      \* ほん
      [Category |-> "Vocabulary", SubCategory |-> "School",
       Japanese |-> <<"HO", "N">>,
       Hiragana |-> <<"HO", "N">>,
       Romaji |-> <<"h", "o", "n">>],
      \* えんぴつ
      [Category |-> "Vocabulary", SubCategory |-> "School",
       Japanese |-> <<"E", "N", "PI", "TU">>,
       Hiragana |-> <<"E", "N", "PI", "TU">>,
       Romaji |-> <<"e", "n", "p", "i", "t", "s", "u">>],
      \* つくえ
      [Category |-> "Vocabulary", SubCategory |-> "School",
       Japanese |-> <<"TU", "KU", "E">>,
       Hiragana |-> <<"TU", "KU", "E">>,
       Romaji |-> <<"t", "s", "u", "k", "u", "e">>],
      \* いす
      [Category |-> "Vocabulary", SubCategory |-> "School",
       Japanese |-> <<"I", "SU">>,
       Hiragana |-> <<"I", "SU">>,
       Romaji |-> <<"i", "s", "u">>],
      \* かばん
      [Category |-> "Vocabulary", SubCategory |-> "School",
       Japanese |-> <<"KA", "BA", "N">>,
       Hiragana |-> <<"KA", "BA", "N">>,
       Romaji |-> <<"k", "a", "b", "a", "n">>],
      \* せんせい
      [Category |-> "Vocabulary", SubCategory |-> "School",
       Japanese |-> <<"SE", "N", "SE", "I">>,
       Hiragana |-> <<"SE", "N", "SE", "I">>,
       Romaji |-> <<"s", "e", "n", "s", "e", "i">>],
      \* がくせい
      [Category |-> "Vocabulary", SubCategory |-> "School",
       Japanese |-> <<"GA", "KU", "SE", "I">>,
       Hiragana |-> <<"GA", "KU", "SE", "I">>,
       Romaji |-> <<"g", "a", "k", "u", "s", "e", "i">>],
      \* きょうしつ
      [Category |-> "Vocabulary", SubCategory |-> "School",
       Japanese |-> <<"KI", "xYO", "U", "SI", "TU">>,
       Hiragana |-> <<"KI", "xYO", "U", "SI", "TU">>,
       Romaji |-> <<"k", "y", "o", "u", "s", "h", "i", "t", "s", "u">>] >>

\* PARTICLES of the generator: は が を に へ と も の で か
AnswerParticles == SubSeq(PARTICLES, 1, 10)

\* the items the AI service returns: a sentence and the word blanked out of
\* it (a vocabulary word, a particle, a word outside the vocabulary, or a
\* word that is not in the sentence)
FillBlanksResults ==
    {[japanese_sentence |-> FifteenItems[k].Hiragana \o <<"DE", "SU">>,
      blanked_word |-> FifteenItems[k].Hiragana] : k \in 1..Len(FifteenItems)}
    \cup
    {[japanese_sentence |-> <<"NE", "KO">> \o AnswerParticles[k] \o <<"I", "NU">> \o <<"DE", "SU">>,
      blanked_word |-> AnswerParticles[k]] : k \in 1..Len(AnswerParticles)}
    \cup
    { \* とりです, blanked とり
      [japanese_sentence |-> <<"TO", "RI", "DE", "SU">>, blanked_word |-> <<"TO", "RI">>],
      \* ねこです, blanked とり
      [japanese_sentence |-> <<"NE", "KO", "DE", "SU">>, blanked_word |-> <<"TO", "RI">>] }
\* String.prototype.includes
includes(s, w) == OccursIn(w, s)

\* s.replace(w, replacement) for a string w: the first occurrence only
replaceFirst(s, w, replacement) ==
    IF ~includes(s, w) THEN s
    ELSE LET i == Minimum({j \in 1..Len(s) :
                             /\ j + Len(w) - 1 <= Len(s)
                             /\ SubSeq(s, j, j + Len(w) - 1) = w})
         IN  SubSeq(s, 1, i - 1) \o replacement \o SubSeq(s, i + Len(w), Len(s))

\* Hiragana.split('/')[0].trim()
firstForm(h) ==
    LET cut == {i \in 1..Len(h) : h[i] = "/"}
    IN  trim(IF cut = {} THEN h ELSE SubSeq(h, 1, Minimum(cut) - 1))

\* the vocabulary the games draw from
vocabularyItems(items) ==
    SelectSeq(items, LAMBDA i : \/ i.Category = "Vocabulary"
                                \/ i.Category = "Grammar" /\ i.SubCategory = "Verbs")

\* shuffleArray(list): any arrangement of the list
shuffleArray(list) ==
    {[k \in 1..Len(list) |-> list[p[k]]] :
        p \in {q \in [1..Len(list) -> 1..Len(list)] :
                  \A i, j \in 1..Len(list) : i # j => q[i] # q[j]}}

\* shuffleArray(pool).slice(0, n) for n <= 2: any n entries of the pool at
\* distinct positions, fewer when the pool is shorter
shuffledSlice(pool, n) ==
    IF n <= 0 \/ Len(pool) = 0 THEN {<<>>}
    ELSE IF n = 1 \/ Len(pool) = 1 THEN {<<pool[i]>> : i \in 1..Len(pool)}
    ELSE {<<pool[q[1]], pool[q[2]]>> :
             q \in {r \in (1..Len(pool)) \X (1..Len(pool)) : r[1] # r[2]}}
\* the first vocabulary item whose Hiragana starts with the answer (0: none)
answerItem(vocabulary, correctAnswer) ==
    LET hits == {i \in 1..Len(vocabulary) :
                    startsWith(vocabulary[i].Hiragana, correctAnswer)}
    IN  IF hits = {} THEN 0 ELSE Minimum(hits)

firstForms(items) == [k \in 1..Len(items) |-> firstForm(items[k].Hiragana)]

\* the distractors chosen before the fallback: two other particles for a
\* particle, otherwise up to two items of the answer's sub-category
distractors(vocabulary, correctAnswer) ==
    IF correctAnswer \in Range(AnswerParticles)
    THEN shuffledSlice(SelectSeq(AnswerParticles, LAMBDA w : w # correctAnswer), 2)
    ELSE IF answerItem(vocabulary, correctAnswer) # 0
    THEN LET item == vocabulary[answerItem(vocabulary, correctAnswer)]
             distractorPool ==
                 SelectSeq(vocabulary,
                           LAMBDA v : /\ v.SubCategory = item.SubCategory
                                      /\ ~startsWith(v.Hiragana, correctAnswer))
         IN  {firstForms(d) : d \in shuffledSlice(distractorPool, 2)}
    ELSE {<<>>}

\* the distractors added when fewer than two were chosen
fallbackDistractors(vocabulary, correctAnswer, chosen) ==
    IF Len(chosen) < 2
    THEN LET fallbackPool ==
                 SelectSeq(vocabulary,
                           LAMBDA v : ~startsWith(v.Hiragana, correctAnswer))
         IN  {firstForms(d) : d \in shuffledSlice(fallbackPool, 2 - Len(chosen))}
    ELSE {<<>>}

RECURSIVE joinWithSpace(_)
\* parts.join(' ')
joinWithSpace(parts) ==
    IF parts = <<>> THEN <<>>
    ELSE IF Len(parts) = 1 THEN parts[1]
    ELSE parts[1] \o <<" ">> \o joinWithSpace(Tail(parts))

InitFillBlanks ==
    /\ contentItems = FifteenItems
    /\ allTokensWithBlank = createTokenizer(contentItems)
    /\ dictionary = createRomajiConverter(contentItems)
    /\ op = "none"
    /\ sentence = <<>>
    /\ tokens = <<>>
    /\ part = <<>>
    /\ romaji = <<>>
    /\ remainingSentence = <<>>
    /\ built = contentItems
    /\ log = {}
    /\ game = NoGame
    /\ scramble = NoRound
    /\ app = AppStart
    /\ gen = GenStart
    /\ fillBlanksQuestion = NoFillBlanks

\* one iteration of the loop over the fill-in-the-blanks items that pushes
\* a question (an item whose word is not in its sentence is skipped)
ProcessFillBlanks ==
    /\ fillBlanksQuestion = NoFillBlanks
    /\ \E item \in FillBlanksResults :
          LET correctAnswer == item.blanked_word
              vocabulary == vocabularyItems(contentItems)
              sentenceWithBlank ==
                  replaceFirst(item.japanese_sentence, correctAnswer, BLANK_MARKER)
              partsWithBlank == tokenizer(allTokensWithBlank, sentenceWithBlank)
          IN  /\ includes(item.japanese_sentence, correctAnswer)
              /\ \E chosen \in distractors(vocabulary, correctAnswer) :
                 \E added \in fallbackDistractors(vocabulary, correctAnswer, chosen) :
                 \E options \in shuffleArray(<<correctAnswer>> \o chosen \o added) :
                    fillBlanksQuestion' =
                        [sentenceWithBlank |-> sentenceWithBlank,
                         romajiSentenceWithBlank |->
                             joinWithSpace([k \in 1..Len(partsWithBlank) |->
                                 IF partsWithBlank[k] = BLANK_MARKER THEN BLANK_MARKER
                                 ELSE romajiConverter(dictionary, partsWithBlank[k])]),
                         options |-> [k \in 1..Len(options) |->
                                         [japanese |-> options[k],
                                          romaji |-> romajiConverter(dictionary, options[k])]],
                         correctAnswer |-> correctAnswer]
    /\ UNCHANGED <<game, contentItems, allTokensWithBlank, dictionary, op, sentence,
                   tokens, part, romaji, remainingSentence, built, log, scramble,
                   app, gen>>

NextFillBlanks == ProcessFillBlanks

SpecFillBlanks == InitFillBlanks /\ [][NextFillBlanks]_vars

\* C27: a question offers exactly three options, pairwise distinct, exactly
\* one of which is the correct answer.
WellFormedOptions ==
    fillBlanksQuestion # NoFillBlanks =>
        LET options == fillBlanksQuestion.options
        IN  /\ Len(options) = 3
            /\ \A i, j \in 1..Len(options) :
                   i # j => options[i].japanese # options[j].japanese
            /\ Cardinality({i \in 1..Len(options) :
                   options[i].japanese = fillBlanksQuestion.correctAnswer}) = 1

\* ------------------------------------------- reload of the vocabulary
\* the longest list of items the unit files deliver in one load
MaxLoaded == 2

\* items of the unit files: one word is the beginning of another, and two
\* entries carry the same Romaji
LoadPool ==
    { \* ね ne
      [Japanese |-> <<"NE">>, Hiragana |-> <<"NE">>, Romaji |-> <<"n", "e">>],
      \* 猫 ねこ neko
      [Japanese |-> <<"NEKO">>, Hiragana |-> <<"NE", "KO">>,
       Romaji |-> <<"n", "e", "k", "o">>],
      \* こす kosu
      [Japanese |-> <<"KO", "SU">>, Hiragana |-> <<"KO", "SU">>,
       Romaji |-> <<"k", "o", "s", "u">>],
      \* ねこす, with the romaji of ねこ
      [Japanese |-> <<"NE", "KO", "SU">>, Hiragana |-> <<"NE", "KO", "SU">>,
       Romaji |-> <<"n", "e", "k", "o">>] }

LoadedLists == SeqsUpTo(LoadPool, MaxLoaded)

LoadSentences ==
    { \* ねこです
      <<"NE", "KO", "DE", "SU">>,
      \* ねこす
      <<"NE", "KO", "SU">>,
      \* こすね
      <<"KO", "SU", "NE">>,
      \* ＿＿＿ねこ
      <<"LOWLINE", "LOWLINE", "LOWLINE", "NE", "KO">>,
      \* ね こ
      <<"NE", " ", "KO">> }

RECURSIVE uniqueItems(_, _)
\* uniqueItemsMap: the first item of every Romaji, in insertion order
uniqueItems(loadedItems, seen) ==
    IF loadedItems = <<>> THEN <<>>
    ELSE IF Head(loadedItems).Romaji \in seen
         THEN uniqueItems(Tail(loadedItems), seen)
    ELSE <<Head(loadedItems)>>
         \o uniqueItems(Tail(loadedItems), seen \cup {Head(loadedItems).Romaji})

uniqueContentItems(loadedItems) == uniqueItems(loadedItems, {})

\* before the first load the content is empty
InitLoad ==
    /\ contentItems = <<>>
    /\ allTokensWithBlank = createTokenizer(contentItems)
    /\ dictionary = createRomajiConverter(contentItems)
    /\ op = "none"
    /\ sentence = <<>>
    /\ tokens = <<>>
    /\ part = <<>>
    /\ romaji = <<>>
    /\ remainingSentence = <<>>
    /\ built = <<>>
    /\ log = {}
    /\ game = NoGame
    /\ scramble = NoRound
    /\ app = AppStart
    /\ gen = GenStart
    /\ fillBlanksQuestion = NoFillBlanks

\* one successful load: the items are deduplicated by Romaji, shuffled and
\* stored; the components rebuild their closures from the new content.
\* built keeps the list as it was before the shuffle.
LoadContent ==
    /\ \E loadedItems \in LoadedLists :
          /\ built' = uniqueContentItems(loadedItems)
          /\ contentItems' \in shuffleArray(built')
    /\ allTokensWithBlank' = createTokenizer(contentItems')
    /\ dictionary' = createRomajiConverter(contentItems')
    /\ op' = "load"
    /\ UNCHANGED <<game, sentence, tokens, part, romaji, remainingSentence, log,
                   scramble, app, gen, fillBlanksQuestion>>

\* one call of the tokenizer built from the shuffled content
TokenizeLoaded ==
    /\ \E s \in LoadSentences :
          /\ sentence' = s
          /\ tokens' = tokenizer(allTokensWithBlank, s)
    /\ op' = "tokenize"
    /\ UNCHANGED <<game, contentItems, allTokensWithBlank, dictionary, part, romaji,
                   remainingSentence, built, log, scramble, app, gen,
                   fillBlanksQuestion>>

NextLoad == LoadContent \/ TokenizeLoaded

SpecLoad == InitLoad /\ [][NextLoad]_vars

\* C28: the tokens returned by the tokenizer built from the shuffled list
\* are the tokens every tokenizer built from an arrangement of the same
\* list returns (the list before the shuffle included).
OrderIndependence ==
    op = "tokenize" =>
        \A arrangement \in shuffleArray(built) :
            tokenizer(createTokenizer(arrangement), sentence) = tokens

\* a list of two words, one the beginning of the other, stored in the
\* other order than loaded, and a sentence that starts with both
OrderIndependenceWitness ==
    /\ op = "tokenize"
    /\ Len(built) >= 2
    /\ contentItems # built
    /\ \E i, j \in 1..Len(built) :
          /\ i < j
          /\ hiraganaBase(built[i]) # hiraganaBase(built[j])
          /\ startsWith(hiraganaBase(built[j]), hiraganaBase(built[i]))
          /\ startsWith(removeWhitespace(sentence), hiraganaBase(built[j]))
    /\ \E k \in 1..Len(tokens) : tokens[k] \in Range(vocabularyWords(built))

\* ------------------------------- tokens handed to the romaji converter
\* entries whose authored romaji differs from what the character table gives,
\* an entry whose Romaji begins with a parenthetical aside, and an entry for は
AuthoredPool ==
    { \* 猫 ねこ neko
      [Japanese |-> <<"NEKO">>, Hiragana |-> <<"NE", "KO">>,
       Romaji |-> <<"n", "e", "k", "o">>],
      \* こんにちは konnichiwa
      [Japanese |-> <<"KO", "N", "NI", "TI", "HA">>,
       Hiragana |-> <<"KO", "N", "NI", "TI", "HA">>,
       Romaji |-> <<"k", "o", "n", "n", "i", "c", "h", "i", "w", "a">>],
      \* ね  (n)ne
      [Japanese |-> <<"NE">>, Hiragana |-> <<"NE">>,
       Romaji |-> <<"(", "n", ")", "n", "e">>],
      \* は ha
      [Japanese |-> <<"HA">>, Hiragana |-> <<"HA">>, Romaji |-> <<"h", "a">>] }

AuthoredVocabularies == SeqsUpTo(AuthoredPool, MaxVocab)

AuthoredSentences ==
    { \* ねこです
      <<"NE", "KO", "DE", "SU">>,
      \* ねです
      <<"NE", "DE", "SU">>,
      \* こんにちはね
      <<"KO", "N", "NI", "TI", "HA", "NE">>,
      \* ねこはね
      <<"NE", "KO", "HA", "NE">> }

\* tokenizer and getRomajiForPart built from the same contentItems
InitAuthored ==
    /\ contentItems \in AuthoredVocabularies
    /\ allTokensWithBlank = createTokenizer(contentItems)
    /\ dictionary = createRomajiConverter(contentItems)
    /\ op = "none"
    /\ sentence = <<>>
    /\ tokens = <<>>
    /\ part = <<>>
    /\ romaji = <<>>
    /\ remainingSentence = <<>>
    /\ built = contentItems
    /\ log = {}
    /\ game = NoGame
    /\ scramble = NoRound
    /\ app = AppStart
    /\ gen = GenStart
    /\ fillBlanksQuestion = NoFillBlanks

\* tokenizer(sentence)
TokenizeSentence ==
    /\ \E s \in AuthoredSentences :
          /\ sentence' = s
          /\ tokens' = tokenizer(allTokensWithBlank, s)
    /\ op' = "tokenize"
    /\ UNCHANGED <<game, contentItems, allTokensWithBlank, dictionary, part, romaji,
                   remainingSentence, built, log, scramble, app, gen,
                   fillBlanksQuestion>>

\* getRomajiForPart(part) for one of the tokens of the sentence
RomanizeToken ==
    /\ \E k \in 1..Len(tokens) :
          /\ part' = tokens[k]
          /\ romaji' = romajiConverter(dictionary, tokens[k])
    /\ op' = "romanize"
    /\ UNCHANGED <<game, contentItems, allTokensWithBlank, dictionary, sentence,
                   tokens, remainingSentence, built, log, scramble, app, gen,
                   fillBlanksQuestion>>

NextAuthored == TokenizeSentence \/ RomanizeToken

SpecAuthored == InitAuthored /\ [][NextAuthored]_vars

\* the entries of the vocabulary whose canonical word is w
EntriesOf(w) == {i \in 1..Len(contentItems) : hiraganaBase(contentItems[i]) = w}

ParticleTokens == {<<"HA">>, <<"HE">>}

MAX_PAIRS == 3

\* the most moves of one game that are followed
MaxMoves == 3

\* the pairId of the pairs: the Romaji of the game items
PairIds ==
    << <<"n", "e", "k", "o">>, <<"i", "n", "u">>, <<"y", "a", "m", "a">>,
       <<"k", "a", "w", "a">> >>

\* gameItems: at most MAX_PAIRS items
gameItems == SubSeq(PairIds, 1, MAX_PAIRS)

\* newCards of setupGame: two cards per item, ids index * 2 and index * 2 + 1
newCards ==
    [k \in 1..(2 * Len(gameItems)) |->
        [id |-> k - 1, pairId |-> gameItems[(k + 1) \div 2], status |-> "down"]]

RECURSIVE arrangements(_)
\* the arrangements of a set of cards
arrangements(S) ==
    IF S = {} THEN {<<>>}
    ELSE UNION {{<<c>> \o rest : rest \in arrangements(S \ {c})} : c \in S}

\* shuffleArray(newCards)
shuffleCards(list) == arrangements(Range(list))

\* what setupGame sets; the pending timeouts are not cleared
setupGame(g, cards) ==
    [g EXCEPT !.cards = cards, !.flippedIndices = <<>>, !.isFinished = FALSE,
              !.moves = 0]

\* variant: a click is accepted while two cards are flipped
clickIgnoredUnlimited(g, index) ==
    \/ g.cards[index].status # "down"
    \/ g.isFinished

\* the early return of handleCardClick
clickIgnored(g, index) ==
    \/ Len(g.flippedIndices) >= 2
    \/ g.cards[index].status # "down"
    \/ g.isFinished

\* the rest of handleCardClick: the card is turned up, and the second card
\* of a move counts the move and starts the timeout of the match or of the
\* mismatch
clickCard(g, index) ==
    LET turned == [g.cards EXCEPT ![index].status = "up"]
        newFlippedIndices == Append(g.flippedIndices, index)
        g1 == [g EXCEPT !.cards = turned, !.flippedIndices = newFlippedIndices]
    IN  IF Len(newFlippedIndices) = 2
        THEN LET firstCard == turned[newFlippedIndices[1]]
                 secondCard == turned[newFlippedIndices[2]]
                 timer == [kind |-> IF firstCard.pairId = secondCard.pairId
                                    THEN "match" ELSE "mismatch",
                           pairId |-> firstCard.pairId,
                           indices |-> newFlippedIndices]
             IN  [g1 EXCEPT !.moves = g.moves + 1,
                            !.timers = g.timers \cup {timer}]
        ELSE g1

\* the effect on cards: when every card is matched the timeout that sets
\* isFinished is started
finishEffect(g) ==
    IF Len(g.cards) > 0 /\ \A i \in 1..Len(g.cards) : g.cards[i].status = "matched"
    THEN [g EXCEPT !.finishPending = TRUE]
    ELSE g

\* the callback of a flip timeout
timeout(g, timer) ==
    LET cards ==
            IF timer.kind = "match"
            THEN [i \in 1..Len(g.cards) |->
                     IF g.cards[i].pairId = timer.pairId
                     THEN [g.cards[i] EXCEPT !.status = "matched"]
                     ELSE g.cards[i]]
            ELSE [i \in 1..Len(g.cards) |->
                     IF i \in Range(timer.indices)
                     THEN [g.cards[i] EXCEPT !.status = "down"]
                     ELSE g.cards[i]]
    IN  finishEffect([g EXCEPT !.cards = cards, !.flippedIndices = <<>>,
                               !.timers = g.timers \ {timer}])

\* the game after its first setupGame
InitGame ==
    /\ contentItems = <<>>
    /\ allTokensWithBlank = createTokenizer(contentItems)
    /\ dictionary = createRomajiConverter(contentItems)
    /\ op = "none"
    /\ sentence = <<>>
    /\ tokens = <<>>
    /\ part = <<>>
    /\ romaji = <<>>
    /\ remainingSentence = <<>>
    /\ built = contentItems
    /\ log = {}
    /\ scramble = NoRound
    /\ app = AppStart
    /\ gen = GenStart
    /\ fillBlanksQuestion = NoFillBlanks
    /\ game \in {setupGame(NoGame, cards) : cards \in shuffleCards(newCards)}

GameFrame ==
    UNCHANGED <<contentItems, allTokensWithBlank, dictionary, op, sentence,
                tokens, part, romaji, remainingSentence, built, log, scramble,
                app, gen, fillBlanksQuestion>>

\* a click on a card
handleCardClick ==
    /\ \E index \in 1..Len(game.cards) :
          IF clickIgnored(game, index) THEN game' = game
          ELSE /\ Len(game.flippedIndices) = 1 => game.moves < MaxMoves
               /\ game' = clickCard(game, index)
    /\ GameFrame

\* a flip timeout expires
FlipTimeout ==
    /\ \E timer \in game.timers : game' = timeout(game, timer)
    /\ GameFrame

\* the timeout started when every card was matched expires
FinishTimeout ==
    /\ game.finishPending
    /\ game' = [game EXCEPT !.isFinished = TRUE, !.finishPending = FALSE]
    /\ GameFrame

\* the Play Again button of the finished screen
PlayAgain ==
    /\ game.isFinished
    /\ \E cards \in shuffleCards(newCards) : game' = setupGame(game, cards)
    /\ GameFrame

NextGame == handleCardClick \/ FlipTimeout \/ FinishTimeout \/ PlayAgain

SpecGame == InitGame /\ [][NextGame]_vars

\* the positions of the cards that are face-up and unmatched
UpCards(g) == {i \in 1..Len(g.cards) : g.cards[i].status = "up"}

\* C30: at most two cards are face-up and unmatched; a click made while two
\* such cards are up changes nothing; and a matched card stays matched until
\* a finished game is set up again.
CardFlipInvariant ==
    /\ Cardinality(UpCards(game)) <= 2
    /\ [][Cardinality(UpCards(game')) <= 2]_vars
    /\ [][Cardinality(UpCards(game)) = 2 /\ handleCardClick => game' = game]_vars
    /\ [][~(game.isFinished /\ ~game'.isFinished) =>
             \A i \in 1..Len(game.cards) :
                 game.cards[i].status = "matched" =>
                     game'.cards[i].status = "matched"]_vars

\* a pair has been matched, and two cards that do not match are up with
\* their timeout pending
CardFlipInvariantWitness ==
    /\ \E i \in 1..Len(game.cards) : game.cards[i].status = "matched"
    /\ Cardinality(UpCards(game)) = 2
    /\ \E timer \in game.timers : timer.kind = "mismatch"
====
